---- MODULE Spec2Model ----
(***************************************************************************)
(* Model of the adapter and budget-management core of the Copilot chat     *)
(* client: the context window builder (src/src/context_manager.py), and    *)
(* from src/src/copilot_api.py the bearer-token refresh of CopilotClient   *)
(* (with src/src/auth.py), the message formatters, the two streaming       *)
(* decoders, the model limits cache and CopilotClient.chat; and of its     *)
(* collaborators: device-flow polling (src/src/auth.py), the conversation  *)
(* store (src/src/chat_store.py), the prompt manager                       *)
(* (src/src/prompt_manager.py) and the send/worker/pump path of the chat   *)
(* window (src/src/app.py).                                                *)
(*                                                                         *)
(* The specifications sharing the module, each holding the variables of    *)
(* the other components at their idle values:                              *)
(*   SpecCtx  build_context_window applied to bounded message lists        *)
(*   SpecTok  threads running CopilotClient._ensure_token concurrently     *)
(*   SpecFmt  _format_messages_claude applied to bounded message lists     *)
(*   SpecSse  _parse_sse / _parse_claude_sse reading a bounded stream      *)
(*   SpecLim  fetch_model_limits on the loader thread, get_model_limits    *)
(*            on the UI thread                                             *)
(*   SpecChat one call of CopilotClient.chat, from _ensure_token to the    *)
(*            value returned or the exception raised                       *)
(*   SpecPoll one call of poll_for_token while the caller may cancel       *)
(*   SpecStore one database file of ChatStore, opened, used and reopened   *)
(*   SpecPm   one PromptManager, its two files, and restarts               *)
(*   SpecUi   the UI thread sending and pumping while workers stream       *)
(***************************************************************************)
EXTENDS Integers, Sequences, FiniteSets, TLC

VARIABLES
    \* ---- context window builder (one call of build_context_window) ----
    messages,             \* the argument `messages`
    max_tokens,           \* the argument `max_tokens`
    reply_buffer_tokens,  \* the argument `reply_buffer_tokens`
    enc,                  \* the tokeniser bootstrap: 0 = tiktoken unavailable
    ctx_pc,               \* "input" | "returned" | "raised"
    result,               \* the list returned
    error,                \* the fields interpolated in the ValueError text
    \* ---- CopilotClient token state and the threads using it ----
    copilot_token,        \* self._copilot_token
    token_expires_at,     \* self._token_expires_at
    clock,                \* time.time(), in seconds
    pc,                   \* per thread: position in chat()/_ensure_token
    now,                  \* per thread: the local `now` of _ensure_token
    expires_seen,         \* per thread: the _token_expires_at it compared with
    response,             \* per thread: what requests.get gave get_copilot_token
    fetched,              \* per thread: the tuple get_copilot_token returned
    outcome,              \* per thread: how its last call ended
    bearer,               \* per thread: the token put in the Authorization header
    issued,               \* the pairs the exchange endpoint has issued, in order
    requests_sent,        \* number of GETs sent to the exchange endpoint
    \* ---- Claude formatter (one call of _format_messages_claude) ----
    fmt_messages,         \* the argument `messages`
    fmt_pc,               \* "input" | "returned"
    fmt_body,             \* the `body` returned (first element of the pair)
    fmt_system_text,      \* the `system_text` returned: {} is None, {s} is s
    \* ---- streaming decoders (_parse_sse, _parse_claude_sse) ----
    sse_grammar,          \* "generic" | "claude": which decoder chat() returned
    wire,                 \* response.iter_lines(): the lines of the stream
    sse_pc,               \* "open" | "reading" | "done" | "raised"
    sse_idx,              \* lines the decoder has taken from iter_lines()
    yielded,              \* the fragments the consumer has received, in order
    chunk_count,          \* the local chunk_count
    error_count,          \* the local error_count
    warned_empty,         \* the "stream ended with 0 text chunks" warning logged
    sse_exc,              \* exception that left the generator, "" if none
    \* ---- model limits cache (fetch_model_limits, get_model_limits) ----
    model_limits,         \* self._model_limits: model id -> ModelLimits
    lim_pc,               \* loader: "idle" | "token" | "get" | "loop" | "store"
                          \*         | "returned" | "raised"
    models,               \* the local `models` being iterated, as JSON
    entry_idx,            \* entries of `models` the loop has finished
    lim,                  \* the local `lim` of the current entry, {} if none
    pending,              \* dict stores _store_model_aliases has still to do
    fetch_failure,        \* which branch returned early, "" if none
    lim_exc,              \* exception that left fetch_model_limits, "" if none
    lim_returned,         \* {} or {the mapping fetch_model_limits returned}
    cache_before,         \* self._model_limits when the current call started
    refreshes,            \* calls of fetch_model_limits started so far
    lookup_seen,          \* what the last get_model_limits(id) returned
    \* ---- one call of CopilotClient.chat ----
    chat_messages,        \* the argument `messages`
    chat_model,           \* the argument `model`
    chat_stream,          \* the argument `stream`
    pre_assembled,        \* the argument `pre_assembled`
    chat_pc,              \* "input" | "token" | "trim" | "format" | "payload"
                          \*         | "post" | "status" | "decode"
                          \*         | "returned" | "raised"
    chat_limits,          \* the local `limits`: {} is None
    trimmed,              \* the local `trimmed`
    formatted,            \* the local `formatted`
    chat_system_text,     \* the local `system_text`: {} is None
    payload,              \* the local `payload`
    posted,               \* the requests.post calls made, in order
    chat_response,        \* the local `response`
    chat_outcome,         \* the value returned or the exception raised
    steps                 \* the stages of chat() entered so far, in order

ctxVars == <<messages, max_tokens, reply_buffer_tokens, enc, ctx_pc, result, error>>
tokVars == <<copilot_token, token_expires_at, clock, pc, now, expires_seen, response,
             fetched, outcome, bearer, issued, requests_sent>>
fmtVars == <<fmt_messages, fmt_pc, fmt_body, fmt_system_text>>
sseVars == <<sse_grammar, wire, sse_pc, sse_idx, yielded, chunk_count, error_count,
             warned_empty, sse_exc>>
limVars == <<model_limits, lim_pc, models, entry_idx, lim, pending, fetch_failure,
             lim_exc, lim_returned, cache_before, refreshes, lookup_seen>>
chatVars == <<chat_messages, chat_model, chat_stream, pre_assembled, chat_pc,
              chat_limits, trimmed, formatted, chat_system_text, payload, posted,
              chat_response, chat_outcome, steps>>
\* auth.poll_for_token: one call, with the flag its is_cancelled callback reads
VARIABLES
    has_callback,     \* is_cancelled was passed (not None)
    cancelled,        \* the caller's flag, as is_cancelled() returns it
    poll_interval,    \* the local interval, in seconds
    poll_pc,          \* position in the loop, or how the call ended
    poll_data,        \* response.json() of the last token request handled
    poll_outcome,     \* the value returned or the exception raised
    poll_requests,    \* POSTs to the token endpoint so far
    poll_sleeps,      \* the argument of every time.sleep so far
    cancel_observed   \* is_cancelled() has returned True to the call

pollVars == <<has_callback, cancelled, poll_interval, poll_pc, poll_data,
              poll_outcome, poll_requests, poll_sleeps, cancel_observed>>
\* chat_store.ChatStore: the database file and one open store on it
VARIABLES
    db_conversations,  \* ids of the conversations table, newest updated_at first
    db_meta_active,    \* the meta row 'active_id': {} when absent, else {id}
    store_open,        \* a ChatStore is constructed on the file
    store_active_id,   \* self._active_id: {} for None, else {id}
    ids_issued,        \* conversation ids generated so far
    store_last         \* the last operation, its argument and the active id before it

storeVars == <<db_conversations, db_meta_active, store_open, store_active_id,
               ids_issued, store_last>>
\* prompt_manager.PromptManager: one manager and its two files
VARIABLES
    pm_prompts,       \* names of self._prompts, in insertion order
    pm_active,        \* self._active
    pm_order,         \* self._order
    file_prompts,     \* names saved in the prompts file
    file_active       \* the active file: {} when absent, else {[order, active]}

pmVars == <<pm_prompts, pm_active, pm_order, file_prompts, file_active>>
\* app.CopilotChatApp: the send controls, the event queue and the workers
VARIABLES
    send_controls,    \* state of the send button, conversation list, new-chat button
    ui_queue,         \* self._queue, oldest event first
    workers,          \* one record per _worker thread started, in start order
    ui_put,           \* every event ever put on the queue, in put order
    ui_processed      \* every event _pump_queue handled, with the controls it left

uiVars == <<send_controls, ui_queue, workers, ui_put, ui_processed>>
vars == <<ctxVars, tokVars, fmtVars, sseVars, limVars, chatVars,
          pollVars, storeVars, pmVars, uiVars>>

\* What the actions of one component leave alone.
outsideCtx == <<tokVars, fmtVars, sseVars, limVars, chatVars, pollVars, storeVars, pmVars, uiVars>>
outsideTok == <<ctxVars, fmtVars, sseVars, limVars, chatVars, pollVars, storeVars, pmVars, uiVars>>
outsideFmt == <<ctxVars, tokVars, sseVars, limVars, chatVars, pollVars, storeVars, pmVars, uiVars>>
outsideSse == <<ctxVars, tokVars, fmtVars, limVars, chatVars, pollVars, storeVars, pmVars, uiVars>>
outsideLim == <<ctxVars, fmtVars, sseVars, chatVars, pollVars, storeVars, pmVars, uiVars>>
outsideChat == <<ctxVars, fmtVars, sseVars, limVars, pollVars, storeVars, pmVars, uiVars>>

outsidePoll == <<ctxVars, tokVars, fmtVars, sseVars, limVars, chatVars, storeVars, pmVars, uiVars>>

outsideStore == <<ctxVars, tokVars, fmtVars, sseVars, limVars, chatVars, pollVars, pmVars, uiVars>>

outsidePm == <<ctxVars, tokVars, fmtVars, sseVars, limVars, chatVars, pollVars, storeVars, uiVars>>

outsideUi == <<ctxVars, tokVars, fmtVars, sseVars, limVars, chatVars, pollVars, storeVars, pmVars>>

\* No call of the Claude formatter is in progress.
FmtIdle ==
    /\ fmt_messages = <<>>
    /\ fmt_pc = "input"
    /\ fmt_body = <<>>
    /\ fmt_system_text = {}

\* No response is being streamed.
SseIdle ==
    /\ sse_grammar = "generic"
    /\ wire = <<>>
    /\ sse_pc = "open"
    /\ sse_idx = 0
    /\ yielded = <<>>
    /\ chunk_count = 0
    /\ error_count = 0
    /\ warned_empty = FALSE
    /\ sse_exc = ""

\* CopilotClient.__init__: an empty cache, and no call in progress.
LimIdle ==
    /\ model_limits = <<>>
    /\ lim_pc = "idle"
    /\ models = [t |-> "list", v |-> <<>>]
    /\ entry_idx = 0
    /\ lim = {}
    /\ pending = <<>>
    /\ fetch_failure = ""
    /\ lim_exc = ""
    /\ lim_returned = {}
    /\ cache_before = <<>>
    /\ refreshes = 0
    /\ lookup_seen = [id |-> "", limits |-> {}]

\* No call of chat() is in progress.
ChatIdle ==
    /\ chat_messages = <<>>
    /\ chat_model = ""
    /\ chat_stream = FALSE
    /\ pre_assembled = FALSE
    /\ chat_pc = "input"
    /\ chat_limits = {}
    /\ trimmed = <<>>
    /\ formatted = <<>>
    /\ chat_system_text = {}
    /\ payload = <<>>
    /\ posted = <<>>
    /\ chat_response = [kind |-> "none"]
    /\ chat_outcome = [kind |-> "none"]
    /\ steps = <<>>

\* poll_for_token has not been called.
PollIdle ==
    /\ has_callback = FALSE
    /\ cancelled = FALSE
    /\ poll_interval = 0
    /\ poll_pc = "idle"
    /\ poll_data = [kind |-> "none"]
    /\ poll_outcome = [kind |-> "none"]
    /\ poll_requests = 0
    /\ poll_sleeps = <<>>
    /\ cancel_observed = FALSE

\* No chat store is open and the database file is new.
StoreIdle ==
    /\ db_conversations = <<>>
    /\ db_meta_active = {}
    /\ store_open = FALSE
    /\ store_active_id = {}
    /\ ids_issued = 0
    /\ store_last = [op |-> "none", cid |-> 0, before |-> {}]

\* No prompt manager is constructed and no file is written.
PmIdle ==
    /\ pm_prompts = <<>>
    /\ pm_active = {}
    /\ pm_order = <<>>
    /\ file_prompts = <<>>
    /\ file_active = {}

\* The chat window has sent nothing.
UiIdle ==
    /\ send_controls = "normal"
    /\ ui_queue = <<>>
    /\ workers = <<>>
    /\ ui_put = <<>>
    /\ ui_processed = <<>>

\* ------------------------------------------------------------------------
\* Bounds of the model
\* ------------------------------------------------------------------------
MaxMsgs == 4
MaxClock == 3
MaxRequests == 3
MaxLines == 4
MaxEntries == 2
MaxRefreshes == 2

\* ------------------------------------------------------------------------
\* Generic helpers
\* ------------------------------------------------------------------------
Max(a, b) == IF a >= b THEN a ELSE b

Front(s) == SubSeq(s, 1, Len(s) - 1)

RECURSIVE SumSeq(_)
SumSeq(s) == IF s = <<>> THEN 0 ELSE s[1] + SumSeq(Tail(s))

\* ------------------------------------------------------------------------
\* Messages.  content is str or list in the source; the model tags it:
\*   [kind |-> "str",  text  |-> <string>]
\*   [kind |-> "list", parts |-> <sequence of parts>]
\* a part is [type |-> "text", text |-> s] or [type |-> "image_url", url |-> u]
\* ------------------------------------------------------------------------
Str(s) == [kind |-> "str", text |-> s]
Parts(ps) == [kind |-> "list", parts |-> ps]
TextPart(s) == [type |-> "text", text |-> s]
ImagePart(u) == [type |-> "image_url", url |-> u]
Msg(r, c) == [role |-> r, content |-> c]

MessageUniverse ==
    { Msg("system", Str("Be brief")),
      Msg("user", Str("")),
      Msg("user", Str("old?")),
      Msg("assistant", Str("answer!")),
      Msg("tool", Str("0123456789")),
      Msg("user", Parts(<<TextPart("see"), ImagePart("data:image/png;base64,abc")>>)) }

\* (max_tokens, reply_buffer_tokens) pairs tried; the first is the default.
BudgetPairs ==
    { <<8192, 1024>>, <<1040, 1024>>, <<100, 128000>>,
      <<15, 0>>, <<20, 0>>, <<27, 0>>, <<34, 0>>, <<290, 0>> }

\* Characters per token of the external o200k_base encoder, when loaded.
EncRatios == {1, 4}

\* ------------------------------------------------------------------------
\* Token counting
\* ------------------------------------------------------------------------
MAX_CONTEXT_TOKENS == 8192
REPLY_BUFFER_TOKENS == 1024
TOKENS_PER_MESSAGE == 4
IMAGE_TOKENS == 256
PRIMING_TOKENS == 3

\* Faulty variant: the fallback has no floor, so an empty string costs 0.
CountStrTokens_NoFloor(text, e) ==
    IF e # 0
    THEN (Len(text) + e - 1) \div e
    ELSE (Len(text) + 2) \div 3

\* _count_str_tokens: the encoder's count when tiktoken loaded (enc # 0),
\* else max(1, (len + 2) // 3).
CountStrTokens(text, e) ==
    IF e # 0
    THEN (Len(text) + e - 1) \div e
    ELSE Max(1, (Len(text) + 2) \div 3)

PartTokens(part, e) ==
    IF part.type = "text" THEN CountStrTokens(part.text, e)
    ELSE IF part.type = "image_url" THEN IMAGE_TOKENS
    ELSE 0

CountMessageTokens(m, e) ==
    TOKENS_PER_MESSAGE +
    ( IF m.content.kind = "str" THEN CountStrTokens(m.content.text, e)
      ELSE IF m.content.kind = "list"
           THEN SumSeq([i \in 1..Len(m.content.parts) |-> PartTokens(m.content.parts[i], e)])
           ELSE 0 )

CountMessagesTokens(ms, e) ==
    SumSeq([i \in 1..Len(ms) |-> CountMessageTokens(ms[i], e)]) + PRIMING_TOKENS

\* ------------------------------------------------------------------------
\* build_context_window
\* ------------------------------------------------------------------------
IsSystem(m) == m.role = "system"
NotSystem(m) == m.role # "system"

EffectiveBudget(T, R) == T - R

\* Faulty variant: only a system message that opens the list is collected.
SystemMsgs_FirstOnly(ms) ==
    IF Len(ms) > 1 /\ IsSystem(ms[1]) THEN <<ms[1]>> ELSE <<>>

SystemMsgs(ms) == SelectSeq(Front(ms), IsSystem)
HistoryMsgs(ms) == SelectSeq(Front(ms), NotSystem)
CurrentUserMsg(ms) == ms[Len(ms)]

FixedMsgs(ms) == Append(SystemMsgs(ms), CurrentUserMsg(ms))
FixedTokens(ms, e) == CountMessagesTokens(FixedMsgs(ms), e)

\* Faulty variant: the guard compares with >=, so an exact fit raises.
BudgetExceeded_AtLeast(ms, T, R, e) == FixedTokens(ms, e) >= EffectiveBudget(T, R)

\* The guard of the ValueError.
BudgetExceeded(ms, T, R, e) == FixedTokens(ms, e) > EffectiveBudget(T, R)

\* Faulty variant: `remaining` is not decremented after a message is kept.
RECURSIVE SelectHistory_NoDecrement(_, _, _)
SelectHistory_NoDecrement(hist, remaining, e) ==
    IF hist = <<>> THEN <<>>
    ELSE LET msg == hist[Len(hist)]
             t == CountMessageTokens(msg, e)
         IN IF t <= remaining
            THEN Append(SelectHistory_NoDecrement(Front(hist), remaining, e), msg)
            ELSE <<>>

\* Faulty variant: a message that does not fit is skipped and the walk goes on.
RECURSIVE SelectHistory_Skip(_, _, _)
SelectHistory_Skip(hist, remaining, e) ==
    IF hist = <<>> THEN <<>>
    ELSE LET msg == hist[Len(hist)]
             t == CountMessageTokens(msg, e)
         IN IF t <= remaining
            THEN Append(SelectHistory_Skip(Front(hist), remaining - t, e), msg)
            ELSE SelectHistory_Skip(Front(hist), remaining, e)

\* Faulty variant: a message is kept only when it leaves budget to spare.
RECURSIVE SelectHistory_Strict(_, _, _)
SelectHistory_Strict(hist, remaining, e) ==
    IF hist = <<>> THEN <<>>
    ELSE LET msg == hist[Len(hist)]
             t == CountMessageTokens(msg, e)
         IN IF t < remaining
            THEN Append(SelectHistory_Strict(Front(hist), remaining - t, e), msg)
            ELSE <<>>

\* Faulty variant: the walk goes from the oldest message to the most recent.
RECURSIVE SelectHistory_OldestFirst(_, _, _)
SelectHistory_OldestFirst(hist, remaining, e) ==
    IF hist = <<>> THEN <<>>
    ELSE LET msg == Head(hist)
             t == CountMessageTokens(msg, e)
         IN IF t <= remaining
            THEN <<msg>> \o SelectHistory_OldestFirst(Tail(hist), remaining - t, e)
            ELSE <<>>

\* for msg in reversed(history_msgs): insert at the front while it fits, break
\* at the first message that does not.
RECURSIVE SelectHistory(_, _, _)
SelectHistory(hist, remaining, e) ==
    IF hist = <<>> THEN <<>>
    ELSE LET msg == hist[Len(hist)]
             t == CountMessageTokens(msg, e)
         IN IF t <= remaining
            THEN Append(SelectHistory(Front(hist), remaining - t, e), msg)
            ELSE <<>>

\* Faulty variant: the current turn is placed before the kept history.
BuildResult_CurrentFirst(ms, T, R, e) ==
    SystemMsgs(ms)
    \o <<CurrentUserMsg(ms)>>
    \o SelectHistory(HistoryMsgs(ms), EffectiveBudget(T, R) - FixedTokens(ms, e), e)

BuildResult(ms, T, R, e) ==
    SystemMsgs(ms)
    \o SelectHistory(HistoryMsgs(ms), EffectiveBudget(T, R) - FixedTokens(ms, e), e)
    \o <<CurrentUserMsg(ms)>>

\* f"{n:,}": decimal digits, a comma every three digits from the right.
DigitChars == <<"0", "1", "2", "3", "4", "5", "6", "7", "8", "9">>

RECURSIVE DigitsOf(_)
DigitsOf(n) ==
    IF n < 10 THEN <<DigitChars[n + 1]>>
    ELSE Append(DigitsOf(n \div 10), DigitChars[(n % 10) + 1])

RECURSIVE GroupThousands(_)
GroupThousands(ds) ==
    IF Len(ds) <= 3 THEN ds
    ELSE GroupThousands(SubSeq(ds, 1, Len(ds) - 3)) \o <<",">>
         \o SubSeq(ds, Len(ds) - 2, Len(ds))

FormatThousands(n) ==
    IF n < 0 THEN <<"-">> \o GroupThousands(DigitsOf(0 - n))
    ELSE GroupThousands(DigitsOf(n))

\* The three numbers the ValueError text interpolates.
BudgetError(ms, T, R, e) ==
    [ tokens |-> FormatThousands(FixedTokens(ms, e)),
      maximum |-> FormatThousands(EffectiveBudget(T, R)),
      reply |-> FormatThousands(R) ]

NoError == [tokens |-> <<>>, maximum |-> <<>>, reply |-> <<>>]

\* ------------------------------------------------------------------------
\* SpecCtx: one call of build_context_window on a bounded input
\* ------------------------------------------------------------------------
CtxTokIdle ==
    /\ copilot_token = ""
    /\ token_expires_at = 0
    /\ clock = 0
    /\ pc = <<>>
    /\ now = <<>>
    /\ expires_seen = <<>>
    /\ response = <<>>
    /\ fetched = <<>>
    /\ outcome = <<>>
    /\ bearer = <<>>
    /\ issued = <<>>
    /\ requests_sent = 0

InitCtx ==
    /\ messages = <<>>
    /\ \E b \in BudgetPairs : max_tokens = b[1] /\ reply_buffer_tokens = b[2]
    /\ enc \in {0} \cup EncRatios
    /\ ctx_pc = "input"
    /\ result = <<>>
    /\ error = NoError
    /\ CtxTokIdle
    /\ FmtIdle
    /\ SseIdle
    /\ LimIdle
    /\ ChatIdle
    /\ UiIdle
    /\ PmIdle
    /\ StoreIdle
    /\ PollIdle

\* The caller assembles the list it will pass.
AddMessage(m) ==
    /\ ctx_pc = "input"
    /\ Len(messages) < MaxMsgs
    /\ messages' = Append(messages, m)
    /\ UNCHANGED <<max_tokens, reply_buffer_tokens, enc, ctx_pc, result, error>>
    /\ UNCHANGED outsideCtx

\* if not messages: return []
BuildEmpty ==
    /\ ctx_pc = "input"
    /\ messages = <<>>
    /\ ctx_pc' = "returned"
    /\ result' = <<>>
    /\ UNCHANGED <<messages, max_tokens, reply_buffer_tokens, enc, error>>
    /\ UNCHANGED outsideCtx

\* raise ValueError(...)
BuildRaise ==
    /\ ctx_pc = "input"
    /\ messages # <<>>
    /\ BudgetExceeded(messages, max_tokens, reply_buffer_tokens, enc)
    /\ ctx_pc' = "raised"
    /\ error' = BudgetError(messages, max_tokens, reply_buffer_tokens, enc)
    /\ UNCHANGED <<messages, max_tokens, reply_buffer_tokens, enc, result>>
    /\ UNCHANGED outsideCtx

\* return system_msgs + selected_history + [current_user_msg]
BuildReturn ==
    /\ ctx_pc = "input"
    /\ messages # <<>>
    /\ ~BudgetExceeded(messages, max_tokens, reply_buffer_tokens, enc)
    /\ ctx_pc' = "returned"
    /\ result' = BuildResult(messages, max_tokens, reply_buffer_tokens, enc)
    /\ UNCHANGED <<messages, max_tokens, reply_buffer_tokens, enc, error>>
    /\ UNCHANGED outsideCtx

NextCtx ==
    \/ \E m \in MessageUniverse : AddMessage(m)
    \/ BuildEmpty
    \/ BuildRaise
    \/ BuildReturn

SpecCtx == InitCtx /\ [][NextCtx]_vars

\* ------------------------------------------------------------------------
\* Properties of build_context_window (checked under SpecCtx)
\* ------------------------------------------------------------------------
Returned == ctx_pc = "returned" /\ messages # <<>>
Raised == ctx_pc = "raised"

\* The non-system messages the result keeps before the current turn.
KeptHistory == SelectSeq(Front(result), NotSystem)

\* The cost of a list, summed message by message, plus the priming overhead.
RECURSIVE ListCost(_, _)
ListCost(ms, e) ==
    IF ms = <<>> THEN PRIMING_TOKENS
    ELSE CountMessageTokens(ms[1], e) + ListCost(Tail(ms), e)

\* The cost of every system message of messages[:-1] plus the current turn.
MandatoryCost ==
    ListCost(SelectSeq(Front(messages), IsSystem), enc)
    + CountMessageTokens(messages[Len(messages)], enc)

\* Reading a number back from its f"{n:,}" text.
DigitValue(c) == CHOOSE d \in 0..9 : DigitChars[d + 1] = c
IsDigitChar(c) == \E d \in 0..9 : DigitChars[d + 1] = c

RECURSIVE ParseDigits(_)
ParseDigits(ds) ==
    IF ds = <<>> THEN 0
    ELSE 10 * ParseDigits(Front(ds)) + DigitValue(ds[Len(ds)])

ParseThousands(txt) ==
    IF txt # <<>> /\ txt[1] = "-"
    THEN 0 - ParseDigits(SelectSeq(Tail(txt), IsDigitChar))
    ELSE ParseDigits(SelectSeq(txt, IsDigitChar))

\* C1: whenever build returns for a non-empty list, the total token cost of
\* the returned list (per-message costs plus the priming overhead of 3) is at
\* most max_tokens - reply_buffer_tokens.
C1_WithinBudget ==
    Returned => ListCost(result, enc) <= max_tokens - reply_buffer_tokens

\* C1 witness: a call that returned after dropping part of the history and
\* keeping another part.
C1_Witness ==
    /\ Returned
    /\ Len(result) < Len(messages)
    /\ KeptHistory # <<>>

\* C3: whenever build returns for a non-empty input, the last element of the
\* result is the input's last element, unmodified.
C3_CurrentTurnLast ==
    Returned => /\ result # <<>>
                /\ result[Len(result)] = messages[Len(messages)]

\* C3 witness: a return where all of a history of two or more messages was
\* dropped and the current turn differs from the first message.
C3_Witness ==
    /\ Returned
    /\ Len(HistoryMsgs(messages)) >= 2
    /\ KeptHistory = <<>>
    /\ messages[1] # messages[Len(messages)]

\* C4: the non-system messages kept before the current turn are a contiguous
\* suffix of the input's history, in the original order.
C4_ContiguousSuffix ==
    Returned =>
        LET hist == SelectSeq(Front(messages), NotSystem)
            kept == KeptHistory
        IN /\ Len(kept) <= Len(hist)
           /\ kept = SubSeq(hist, Len(hist) - Len(kept) + 1, Len(hist))

\* C4 witness: part of the history was kept and an older message, different
\* from every kept one, was dropped.
C4_Witness ==
    /\ Returned
    /\ Len(KeptHistory) >= 1
    /\ Len(KeptHistory) < Len(HistoryMsgs(messages))
    /\ \E i \in 1..(Len(HistoryMsgs(messages)) - Len(KeptHistory)) :
          HistoryMsgs(messages)[i] \notin {KeptHistory[j] : j \in 1..Len(KeptHistory)}

\* System messages of messages[:-1] all come before every other message of it.
SystemLeading(ms) ==
    \A i, j \in 1..(Len(ms) - 1) : (i < j /\ IsSystem(ms[j])) => IsSystem(ms[i])

\* C5 (as stated): whenever the whole list fits, the result equals the input,
\* system messages at any position.
C5_IdentityAnyPosition ==
    (Returned /\ ListCost(messages, enc) <= max_tokens - reply_buffer_tokens)
        => result = messages

\* C5 (amended): whenever the whole list fits and the system messages of
\* messages[:-1] lead it, the result equals the input.
C5_IdentitySystemLeading ==
    (Returned /\ ListCost(messages, enc) <= max_tokens - reply_buffer_tokens
              /\ SystemLeading(messages))
        => result = messages

\* C5 witness: a list with a leading system message and history that fits
\* the budget exactly.
C5_Witness ==
    /\ Returned
    /\ Len(messages) >= 3
    /\ IsSystem(messages[1])
    /\ ListCost(messages, enc) = max_tokens - reply_buffer_tokens
    /\ result = messages

\* C6: build raises exactly when the mandatory cost exceeds
\* max_tokens - reply_buffer_tokens, and the error text states both numbers.
C6_RaisesIffMandatoryTooBig ==
    (ctx_pc # "input" /\ messages # <<>>) =>
        /\ Raised <=> (MandatoryCost > max_tokens - reply_buffer_tokens)
        /\ Raised => /\ ParseThousands(error.tokens) = MandatoryCost
                     /\ ParseThousands(error.maximum) = max_tokens - reply_buffer_tokens

\* C6 witness: a raise caused by system messages plus the current turn, with
\* history present, and a four-digit number in the text.
C6_Witness ==
    /\ Raised
    /\ SystemMsgs(messages) # <<>>
    /\ HistoryMsgs(messages) # <<>>
    /\ Len(error.maximum) >= 5

\* The per-message costs of a list, without the priming overhead.
RECURSIVE HistoryCost(_, _)
HistoryCost(ms, e) ==
    IF ms = <<>> THEN 0 ELSE CountMessageTokens(ms[1], e) + HistoryCost(Tail(ms), e)

\* What the mandatory messages leave of the budget.
RemainingBudget == (max_tokens - reply_buffer_tokens) - MandatoryCost

\* The k most recent messages of the history.
RecentHistory(k) ==
    LET hist == SelectSeq(Front(messages), NotSystem)
    IN SubSeq(hist, Len(hist) - k + 1, Len(hist))

FitsRemaining(k) == HistoryCost(RecentHistory(k), enc) <= RemainingBudget

\* C29: the history is walked from the most recent message to the oldest
\* and the walk stops at the first message that does not fit: the history
\* kept is the longest suffix of the history whose summed cost fits in
\* the budget the mandatory messages leave.
C29_LongestFittingSuffix ==
    Returned /\ messages # <<>> =>
        \E k \in 0..Len(SelectSeq(Front(messages), NotSystem)) :
            /\ KeptHistory = RecentHistory(k)
            /\ FitsRemaining(k)
            /\ \A j \in (k + 1)..Len(SelectSeq(Front(messages), NotSystem)) :
                  ~FitsRemaining(j)

\* C29 witness: the walk stopped at a message that would have fitted in
\* the budget alone, after more recent messages were kept.
C29_Witness ==
    /\ Returned
    /\ Len(KeptHistory) >= 1
    /\ Len(KeptHistory) < Len(HistoryMsgs(messages))
    /\ LET hist == HistoryMsgs(messages)
           rejected == hist[Len(hist) - Len(KeptHistory)]
       IN /\ CountMessageTokens(rejected, enc) <= RemainingBudget
          /\ rejected # hist[Len(hist)]

\* C30: whenever build returns, the system messages of messages[:-1] are
\* all in the result, unmodified and in their original order, before every
\* kept history message.
C30_SystemBeforeHistory ==
    Returned /\ messages # <<>> =>
        LET sys == SelectSeq(Front(messages), IsSystem)
        IN /\ Len(result) >= Len(sys) + 1
           /\ SubSeq(result, 1, Len(sys)) = sys
           /\ \A i \in (Len(sys) + 1)..(Len(result) - 1) : NotSystem(result[i])

\* C30 witness: a system message that followed a history message in the
\* input was returned ahead of that message.
C30_Witness ==
    /\ Returned
    /\ Len(messages) >= 3
    /\ NotSystem(messages[1])
    /\ IsSystem(messages[2])
    /\ result[1] = messages[2]
    /\ result[2] = messages[1]

\* ceil(n / 3), the least k with 3k >= n.
CeilThird(n) == CHOOSE k \in 0..n : 3 * k >= n /\ (k = 0 \/ 3 * (k - 1) < n)

FallbackStringCost(text) ==
    IF CeilThird(Len(text)) >= 1 THEN CeilThird(Len(text)) ELSE 1

RECURSIVE FallbackPartsCost(_)
FallbackPartsCost(parts) ==
    IF parts = <<>> THEN 0
    ELSE ( IF parts[1].type = "text" THEN FallbackStringCost(parts[1].text)
           ELSE IF parts[1].type = "image_url" THEN 256
           ELSE 0 )
         + FallbackPartsCost(Tail(parts))

FallbackMessageCost(m) ==
    4 + ( IF m.content.kind = "str" THEN FallbackStringCost(m.content.text)
          ELSE FallbackPartsCost(m.content.parts) )

RECURSIVE FallbackListCost(_)
FallbackListCost(ms) ==
    IF ms = <<>> THEN 3
    ELSE FallbackMessageCost(ms[1]) + FallbackListCost(Tail(ms))

\* C34: with the fallback counter, the cost of a message list is the sum
\* of its per-message costs plus 3; a message costs 4 plus its content
\* cost; a string costs max(1, ceil(len / 3)), so the empty string costs
\* 1; multipart content costs the sum of its text parts plus 256 for each
\* image part.
C34_FallbackCost ==
    enc = 0 =>
        /\ CountMessagesTokens(messages, enc) = FallbackListCost(messages)
        /\ \A i \in 1..Len(messages) :
               CountMessageTokens(messages[i], enc) = FallbackMessageCost(messages[i])
        /\ CountStrTokens("", enc) = 1

\* C34 witness: a call counted by the fallback whose list holds an empty
\* string and an image: 3 + (4 + 1) + (4 + 1 + 256) = 269.
C34_Witness ==
    /\ Returned
    /\ enc = 0
    /\ messages = << Msg("user", Str("")),
                     Msg("user", Parts(<<TextPart("see"),
                                         ImagePart("data:image/png;base64,abc")>>)) >>
    /\ CountMessagesTokens(messages, enc) = 269

\* ------------------------------------------------------------------------
\* Token exchange: auth.get_copilot_token and CopilotClient._ensure_token
\* ------------------------------------------------------------------------
\* The threads that enter one client: the model-limits loader started at
\* authentication and the chat worker started by a send.
Threads == {"loader", "worker"}

REFRESH_MARGIN == 60
EXCHANGE_URL == "https://api.github.com/copilot_internal/v2/token"

\* Lifetimes (seconds) of the tokens the endpoint issues.
Lifetimes == {62}

\* Statuses for which the endpoint's answer is an error.
ErrorStatuses == {401, 403, 500}

\* Response bodies: the raw text and what response.json() makes of it.
EmptyBody == [text |-> "", json |-> [kind |-> "invalid"]]
JsonErrorBody ==
    [ text |-> "{\"error\": {\"type\": \"auth\", \"message\": \"expired\"}}",
      json |-> [kind |-> "error_dict", type |-> "auth", message |-> "expired"] ]
ErrorBodies == {EmptyBody, JsonErrorBody}

\* The n-th bearer token the endpoint issues.
TokenName(n) == "tok" \o ToString(n)

\* text[:500]
Truncate500(text) == IF Len(text) <= 500 THEN text ELSE SubSeq(text, 1, 500)

\* _extract_error_detail
ExtractErrorDetail(body) ==
    IF body.json.kind = "error_dict"
    THEN "[" \o body.json.type \o "] " \o body.json.message
    ELSE IF body.json.kind = "error_value" THEN body.json.value
    ELSE IF body.json.kind = "invalid" /\ body.text = "" THEN "(empty body)"
    ELSE Truncate500(body.text)

\* The CopilotAPIError raised by `except requests.HTTPError`.
HttpAuthError(status, body) ==
    [ kind |-> "error",
      status_code |-> {status},
      endpoint |-> EXCHANGE_URL,
      response_body |-> ExtractErrorDetail(body),
      cause |-> "HTTPError" ]

\* The CopilotAPIError raised by `except Exception`.
GenericAuthError(excType) ==
    [ kind |-> "error",
      status_code |-> {},
      endpoint |-> "",
      response_body |-> "",
      cause |-> excType ]

\* What get_copilot_token raises for an error status: RuntimeError for 403,
\* raise_for_status()'s HTTPError otherwise; _ensure_token wraps either.
AuthErrorForStatus(status, body) ==
    IF status = 403 THEN GenericAuthError("RuntimeError")
    ELSE HttpAuthError(status, body)

\* Faulty variant: the margin is not subtracted.
NeedsRefresh_NoMargin(n, expires) == n >= expires

\* if now >= self._token_expires_at - 60
NeedsRefresh(n, expires) == n >= expires - REFRESH_MARGIN

\* Faulty variant: a failed exchange clears the cached credential.
FailureKeepsCredential_Cleared ==
    /\ copilot_token' = ""
    /\ token_expires_at' = 0

\* The exception leaves get_copilot_token before the assignment of line 404.
FailureKeepsCredential == UNCHANGED <<copilot_token, token_expires_at>>

NoOutcome == [kind |-> "none"]
Running == [kind |-> "running"]
OkOutcome == [kind |-> "ok"]
NoResponse == [kind |-> "none"]

CtxIdle ==
    /\ messages = <<>>
    /\ max_tokens = MAX_CONTEXT_TOKENS
    /\ reply_buffer_tokens = REPLY_BUFFER_TOKENS
    /\ enc = 0
    /\ ctx_pc = "input"
    /\ result = <<>>
    /\ error = NoError

\* CopilotClient.__init__, and no thread inside the client yet.
InitTok ==
    /\ copilot_token = ""
    /\ token_expires_at = 0
    /\ clock = 0
    /\ pc = [t \in Threads |-> "idle"]
    /\ now = [t \in Threads |-> 0]
    /\ expires_seen = [t \in Threads |-> 0]
    /\ response = [t \in Threads |-> NoResponse]
    /\ fetched = [t \in Threads |-> <<>>]
    /\ outcome = [t \in Threads |-> NoOutcome]
    /\ bearer = [t \in Threads |-> ""]
    /\ issued = <<>>
    /\ requests_sent = 0
    /\ CtxIdle
    /\ FmtIdle
    /\ SseIdle
    /\ LimIdle
    /\ ChatIdle
    /\ UiIdle
    /\ PmIdle
    /\ StoreIdle
    /\ PollIdle

\* time.time() advances.
Tick ==
    /\ clock < MaxClock
    /\ clock' = clock + 1
    /\ UNCHANGED <<copilot_token, token_expires_at, pc, now, expires_seen, response,
                   fetched, outcome, bearer, issued, requests_sent>>
    /\ UNCHANGED outsideTok

\* A thread enters chat() or fetch_model_limits(): both start with
\* self._ensure_token().
Call(t) ==
    /\ pc[t] = "idle"
    /\ pc' = [pc EXCEPT ![t] = "read_clock"]
    /\ outcome' = [outcome EXCEPT ![t] = Running]
    /\ UNCHANGED <<copilot_token, token_expires_at, clock, now, expires_seen,
                   response, fetched, bearer, issued, requests_sent>>
    /\ UNCHANGED outsideTok

\* now = time.time()
ReadClock(t) ==
    /\ pc[t] = "read_clock"
    /\ now' = [now EXCEPT ![t] = clock]
    /\ pc' = [pc EXCEPT ![t] = "compare"]
    /\ UNCHANGED <<copilot_token, token_expires_at, clock, expires_seen, response,
                   fetched, outcome, bearer, issued, requests_sent>>
    /\ UNCHANGED outsideTok

\* if now >= self._token_expires_at - 60: ... requests.get(url, ...)
CompareRefresh(t) ==
    /\ pc[t] = "compare"
    /\ NeedsRefresh(now[t], token_expires_at)
    /\ requests_sent < MaxRequests
    /\ expires_seen' = [expires_seen EXCEPT ![t] = token_expires_at]
    /\ requests_sent' = requests_sent + 1
    /\ pc' = [pc EXCEPT ![t] = "exchange"]
    /\ UNCHANGED <<copilot_token, token_expires_at, clock, now, response, fetched,
                   outcome, bearer, issued>>
    /\ UNCHANGED outsideTok

\* The token is still valid: _ensure_token returns at once.
CompareValid(t) ==
    /\ pc[t] = "compare"
    /\ ~NeedsRefresh(now[t], token_expires_at)
    /\ expires_seen' = [expires_seen EXCEPT ![t] = token_expires_at]
    /\ pc' = [pc EXCEPT ![t] = "header"]
    /\ UNCHANGED <<copilot_token, token_expires_at, clock, now, response, fetched,
                   outcome, bearer, issued, requests_sent>>
    /\ UNCHANGED outsideTok

\* 200 with {"token": ..., "expires_at": ...}; expires_at defaults to 0.
ExchangeOk(t, expires) ==
    /\ pc[t] = "exchange"
    /\ LET tok == TokenName(Len(issued) + 1)
       IN /\ response' = [response EXCEPT ![t] = [kind |-> "http", status |-> 200]]
          /\ fetched' = [fetched EXCEPT ![t] = <<tok, expires>>]
          /\ issued' = Append(issued, <<tok, expires>>)
    /\ pc' = [pc EXCEPT ![t] = "store_token"]
    /\ UNCHANGED <<copilot_token, token_expires_at, clock, now, expires_seen,
                   outcome, bearer, requests_sent>>
    /\ UNCHANGED outsideTok

\* An error status: get_copilot_token raises, _ensure_token raises
\* CopilotAPIError and the call ends.
ExchangeHttpError(t, status, body) ==
    /\ pc[t] = "exchange"
    /\ response' = [response EXCEPT ![t] =
                       [kind |-> "http", status |-> status, body |-> body]]
    /\ outcome' = [outcome EXCEPT ![t] = AuthErrorForStatus(status, body)]
    /\ pc' = [pc EXCEPT ![t] = "done"]
    /\ FailureKeepsCredential
    /\ UNCHANGED <<clock, now, expires_seen, fetched, bearer, issued, requests_sent>>
    /\ UNCHANGED outsideTok

\* 200 whose body has no "token": data["token"] raises KeyError.
ExchangeMalformed(t) ==
    /\ pc[t] = "exchange"
    /\ response' = [response EXCEPT ![t] = [kind |-> "http", status |-> 200]]
    /\ outcome' = [outcome EXCEPT ![t] = GenericAuthError("KeyError")]
    /\ pc' = [pc EXCEPT ![t] = "done"]
    /\ FailureKeepsCredential
    /\ UNCHANGED <<clock, now, expires_seen, fetched, bearer, issued, requests_sent>>
    /\ UNCHANGED outsideTok

\* requests.get raises ConnectionError.
ExchangeConnectionError(t) ==
    /\ pc[t] = "exchange"
    /\ response' = [response EXCEPT ![t] = [kind |-> "connection_error"]]
    /\ outcome' = [outcome EXCEPT ![t] = GenericAuthError("ConnectionError")]
    /\ pc' = [pc EXCEPT ![t] = "done"]
    /\ FailureKeepsCredential
    /\ UNCHANGED <<clock, now, expires_seen, fetched, bearer, issued, requests_sent>>
    /\ UNCHANGED outsideTok

\* self._copilot_token, self._token_expires_at = <tuple>: the first store.
StoreToken(t) ==
    /\ pc[t] = "store_token"
    /\ copilot_token' = fetched[t][1]
    /\ pc' = [pc EXCEPT ![t] = "store_expiry"]
    /\ UNCHANGED <<token_expires_at, clock, now, expires_seen, response, fetched,
                   outcome, bearer, issued, requests_sent>>
    /\ UNCHANGED outsideTok

\* ... the second store.
StoreExpiry(t) ==
    /\ pc[t] = "store_expiry"
    /\ token_expires_at' = fetched[t][2]
    /\ pc' = [pc EXCEPT ![t] = "header"]
    /\ UNCHANGED <<copilot_token, clock, now, expires_seen, response, fetched,
                   outcome, bearer, issued, requests_sent>>
    /\ UNCHANGED outsideTok

\* "Authorization": f"Bearer {self._copilot_token}"
BuildHeader(t) ==
    /\ pc[t] = "header"
    /\ bearer' = [bearer EXCEPT ![t] = copilot_token]
    /\ outcome' = [outcome EXCEPT ![t] = OkOutcome]
    /\ pc' = [pc EXCEPT ![t] = "done"]
    /\ UNCHANGED <<copilot_token, token_expires_at, clock, now, expires_seen,
                   response, fetched, issued, requests_sent>>
    /\ UNCHANGED outsideTok

\* The call is over (returned, or the error reached the caller): its locals
\* are gone and the thread may call again.
Return(t) ==
    /\ pc[t] = "done"
    /\ pc' = [pc EXCEPT ![t] = "idle"]
    /\ now' = [now EXCEPT ![t] = 0]
    /\ expires_seen' = [expires_seen EXCEPT ![t] = 0]
    /\ response' = [response EXCEPT ![t] = NoResponse]
    /\ fetched' = [fetched EXCEPT ![t] = <<>>]
    /\ outcome' = [outcome EXCEPT ![t] = NoOutcome]
    /\ bearer' = [bearer EXCEPT ![t] = ""]
    /\ UNCHANGED <<copilot_token, token_expires_at, clock, issued, requests_sent>>
    /\ UNCHANGED outsideTok

NextTok ==
    \/ Tick
    \/ \E t \in Threads : Call(t)
    \/ \E t \in Threads : ReadClock(t)
    \/ \E t \in Threads : CompareRefresh(t)
    \/ \E t \in Threads : CompareValid(t)
    \/ \E t \in Threads : \E l \in Lifetimes : ExchangeOk(t, clock + l)
    \/ \E t \in Threads : ExchangeOk(t, 0)
    \/ \E t \in Threads : \E st \in ErrorStatuses : \E b \in ErrorBodies :
          ExchangeHttpError(t, st, b)
    \/ \E t \in Threads : ExchangeMalformed(t)
    \/ \E t \in Threads : ExchangeConnectionError(t)
    \/ \E t \in Threads : StoreToken(t)
    \/ \E t \in Threads : StoreExpiry(t)
    \/ \E t \in Threads : BuildHeader(t)
    \/ \E t \in Threads : Return(t)

SpecTok == InitTok /\ [][NextTok]_vars

\* ------------------------------------------------------------------------
\* Properties of the token refresh (checked under SpecTok)
\* ------------------------------------------------------------------------
\* Thread t is between sending the exchange request and its last store.
Refreshing(t) == pc[t] \in {"exchange", "store_token", "store_expiry"}

\* Thread t takes a step.
Moves(t) == pc'[t] # pc[t]

\* C2: at most one caller at a time is inside a token exchange: a caller that
\* finds the token expired while another caller's exchange is under way does
\* not send a second request.
C2_SingleFlight ==
    \A t, u \in Threads : (Refreshing(t) /\ Refreshing(u)) => t = u

\* C7: _ensure_token sends the exchange request if and only if
\* now >= expires_at - 60 when it compares; otherwise it sends nothing and
\* leaves the stored token and expiry as they are until the call returns; a
\* client that has never sent an exchange request sends one on its first call.
C7_RefreshIffWithinMargin ==
    [][ \A t \in Threads :
          /\ (pc[t] = "compare" /\ Moves(t)) =>
                /\ (pc'[t] = "exchange") <=> (now[t] >= token_expires_at - 60)
                /\ (pc'[t] = "exchange") <=> (requests_sent' = requests_sent + 1)
                /\ (now[t] < token_expires_at - 60) =>
                      /\ pc'[t] = "header"
                      /\ UNCHANGED <<copilot_token, token_expires_at, requests_sent>>
                /\ (requests_sent = 0) => pc'[t] = "exchange"
          /\ (pc[t] = "header" /\ Moves(t)) =>
                /\ pc'[t] = "done"
                /\ UNCHANGED <<copilot_token, token_expires_at, requests_sent>>
      ]_vars

\* C7 witness: a caller that compared one second before the margin
\* (now = expires_at - 61), skipped the exchange and is about to use the
\* cached token.
C7_Witness ==
    \E t \in Threads :
        /\ pc[t] = "header"
        /\ fetched[t] = <<>>
        /\ now[t] = token_expires_at - 61
        /\ expires_seen[t] = token_expires_at
        /\ requests_sent = 1

\* The stored pair is the initial pair or a pair one exchange returned.
PairIssued ==
    \/ <<copilot_token, token_expires_at>> = <<"", 0>>
    \/ \E i \in 1..Len(issued) : issued[i] = <<copilot_token, token_expires_at>>

\* C8: whenever a caller is about to read the stored expiry (the comparison
\* of _ensure_token) or the stored token (the Authorization header), the
\* stored (bearer token, expiry) is a pair that one exchange returned, or the
\* initial pair: never the token of one exchange with the expiry of another.
C8_PairReplacedAtomically ==
    (\E u \in Threads : pc[u] \in {"compare", "header"}) => PairIssued

\* C9: an error status from the exchange endpoint gives an auth error with
\* that status code and the response body; a connection failure gives an
\* auth error without a status.
C9_AuthErrorCarriesStatus ==
    \A t \in Threads :
        (pc[t] = "done" /\ outcome[t].kind = "error") =>
            /\ (response[t].kind = "http" /\ response[t].status \notin 200..299) =>
                  /\ outcome[t].status_code = {response[t].status}
                  /\ outcome[t].response_body = ExtractErrorDetail(response[t].body)
            /\ (response[t].kind = "connection_error") =>
                  outcome[t].status_code = {}

\* C10: a failed exchange leaves the stored token and expiry as they were,
\* ends only the failing call (the thread can call again), stores nothing
\* fetched, and the refresh condition still holds afterwards unless another
\* caller has replaced the expiry in the meantime.
C10_FailureKeepsCredential ==
    [][ \A t \in Threads :
          (pc[t] = "exchange" /\ pc'[t] = "done") =>
              /\ outcome'[t].kind = "error"
              /\ fetched'[t] = <<>>
              /\ copilot_token' = copilot_token
              /\ token_expires_at' = token_expires_at
              /\ \A u \in Threads \ {t} : pc'[u] = pc[u] /\ outcome'[u] = outcome[u]
              /\ (token_expires_at' = expires_seen[t]) =>
                    clock' >= token_expires_at' - 60
      ]_vars

\* C10 witness: a call that failed after an earlier exchange had succeeded;
\* the earlier token is still stored and a new call has started the exchange
\* again.
C10_Witness ==
    \E t, u \in Threads :
        /\ pc[t] = "done"
        /\ outcome[t].kind = "error"
        /\ copilot_token = "tok1"
        /\ issued = <<<<"tok1", token_expires_at>>>>
        /\ pc[u] = "exchange"
        /\ requests_sent = 3

\* ------------------------------------------------------------------------
\* String helpers (str.startswith, str.partition, str.split(sep, 1))
\* ------------------------------------------------------------------------
StartsWith(s, prefix) ==
    Len(s) >= Len(prefix) /\ SubSeq(s, 1, Len(prefix)) = prefix

\* Index of the first occurrence of the one-character string c, 0 if none.
IndexOf(s, c) ==
    IF \E i \in 1..Len(s) : SubSeq(s, i, i) = c
    THEN CHOOSE i \in 1..Len(s) :
             /\ SubSeq(s, i, i) = c
             /\ \A j \in 1..(i - 1) : SubSeq(s, j, j) # c
    ELSE 0

\* s.partition(c)[0] and s.partition(c)[2]
BeforeFirst(s, c) == IF IndexOf(s, c) = 0 THEN s ELSE SubSeq(s, 1, IndexOf(s, c) - 1)
AfterFirst(s, c) == IF IndexOf(s, c) = 0 THEN "" ELSE SubSeq(s, IndexOf(s, c) + 1, Len(s))

\* s.split(c, 1)[-1]
SplitOnceLast(s, c) == IF IndexOf(s, c) = 0 THEN s ELSE AfterFirst(s, c)

\* ------------------------------------------------------------------------
\* The Claude formatter: _format_messages_claude and its helpers
\* ------------------------------------------------------------------------
ClaudeUniverse ==
    MessageUniverse \cup
    { Msg("system", Parts(<<TextPart("Rules"), ImagePart("https://x/y.png")>>)),
      Msg("system", Str("")),
      Msg("assistant", Parts(<<ImagePart("https://x/y.png")>>)) }

START_PLACEHOLDER == Msg("user", Str("(start)"))

\* _flatten_content: the text parts, "[image]" for an image part, one per line
FlattenPart(p) == IF p.type = "text" THEN p.text ELSE "[image]"

RECURSIVE JoinNewline(_)
JoinNewline(texts) ==
    IF texts = <<>> THEN ""
    ELSE IF Len(texts) = 1 THEN texts[1]
    ELSE texts[1] \o "\n" \o JoinNewline(Tail(texts))

FlattenContent(c) ==
    IF c.kind = "str" THEN c.text
    ELSE JoinNewline([i \in 1..Len(c.parts) |-> FlattenPart(c.parts[i])])

\* _convert_image_parts_for_claude, one part
MediaTypeOf(url) ==
    LET header == BeforeFirst(url, ",")
        mt == BeforeFirst(SplitOnceLast(header, ":"), ";")
    IN  IF mt = "" THEN "image/png" ELSE mt

ConvertPartForClaude(p) ==
    IF p.type # "image_url" THEN p
    ELSE IF StartsWith(p.url, "data:")
    THEN [type |-> "image",
          source |-> [type |-> "base64",
                      media_type |-> MediaTypeOf(p.url),
                      data |-> AfterFirst(p.url, ",")]]
    ELSE TextPart("[image: " \o p.url \o "]")

ConvertImagePartsForClaude(parts) ==
    [i \in 1..Len(parts) |-> ConvertPartForClaude(parts[i])]

\* Faulty variant: the content of the second message comes first.
MergeMessages_Reversed(a, b) ==
    IF a.content.kind = "str" /\ b.content.kind = "str"
    THEN Msg(a.role, Str(b.content.text \o "\n" \o a.content.text))
    ELSE Msg(a.role,
             Parts((IF b.content.kind = "list" THEN b.content.parts
                    ELSE IF b.content.text # "" THEN <<TextPart(b.content.text)>>
                    ELSE <<>>)
                   \o (IF a.content.kind = "list" THEN a.content.parts
                       ELSE IF a.content.text # "" THEN <<TextPart(a.content.text)>>
                       ELSE <<>>)))

\* _merge_messages and its inner _as_list
AsList(c) ==
    IF c.kind = "list" THEN c.parts
    ELSE IF c.text # "" THEN <<TextPart(c.text)>> ELSE <<>>

MergeMessages(a, b) ==
    IF a.content.kind = "str" /\ b.content.kind = "str"
    THEN Msg(a.role, Str(a.content.text \o "\n" \o b.content.text))
    ELSE Msg(a.role, Parts(AsList(a.content) \o AsList(b.content)))

\* if role not in ("user", "assistant"): role = "assistant"
CoerceRole(r) == IF r \in {"user", "assistant"} THEN r ELSE "assistant"

\* Faulty variant: only the first system message is kept.
AddSystemText_FirstOnly(sys, text) == IF sys = {} THEN {text} ELSE sys

\* if system_text is None: system_text = text  else: system_text += "\n" + text
AddSystemText(sys, text) ==
    IF sys = {} THEN {text}
    ELSE {(CHOOSE t \in sys : TRUE) \o "\n" \o text}

\* Faulty variant: only consecutive user messages are merged.
SameRoleAsLast_UserOnly(b, role) ==
    b # <<>> /\ b[Len(b)].role = role /\ role = "user"

\* if body and body[-1]["role"] == role
SameRoleAsLast(b, role) == b # <<>> /\ b[Len(b)].role = role

\* One iteration of `for msg in messages`, on the pair (body, system_text).
ClaudeStep(acc, msg) ==
    IF msg.role = "system"
    THEN [body |-> acc.body,
          system_text |-> AddSystemText(acc.system_text, FlattenContent(msg.content))]
    ELSE LET role == CoerceRole(msg.role)
             content == IF msg.content.kind = "list"
                        THEN Parts(ConvertImagePartsForClaude(msg.content.parts))
                        ELSE msg.content
             new == Msg(role, content)
         IN  [body |-> IF SameRoleAsLast(acc.body, role)
                       THEN [acc.body EXCEPT ![Len(acc.body)] =
                                 MergeMessages(acc.body[Len(acc.body)], new)]
                       ELSE Append(acc.body, new),
              system_text |-> acc.system_text]

RECURSIVE ClaudeLoop(_, _)
ClaudeLoop(acc, ms) ==
    IF ms = <<>> THEN acc ELSE ClaudeLoop(ClaudeStep(acc, ms[1]), Tail(ms))

\* Faulty variant: the placeholder is never inserted.
NeedsPlaceholder_Never(b) == FALSE

\* if body and body[0]["role"] != "user"
NeedsPlaceholder(b) == b # <<>> /\ b[1].role # "user"

FormatMessagesClaude(ms) ==
    LET acc == ClaudeLoop([body |-> <<>>, system_text |-> {}], ms)
    IN  [body |-> IF NeedsPlaceholder(acc.body)
                  THEN <<START_PLACEHOLDER>> \o acc.body
                  ELSE acc.body,
         system_text |-> acc.system_text]

\* ------------------------------------------------------------------------
\* SpecFmt: one call of _format_messages_claude on a bounded input
\* ------------------------------------------------------------------------
InitFmt ==
    /\ FmtIdle
    /\ CtxIdle
    /\ CtxTokIdle
    /\ SseIdle
    /\ LimIdle
    /\ ChatIdle
    /\ UiIdle
    /\ PmIdle
    /\ StoreIdle
    /\ PollIdle

\* The caller assembles the conversation it will pass.
FmtAddMessage(m) ==
    /\ fmt_pc = "input"
    /\ Len(fmt_messages) < MaxMsgs
    /\ fmt_messages' = Append(fmt_messages, m)
    /\ UNCHANGED <<fmt_pc, fmt_body, fmt_system_text>>
    /\ UNCHANGED outsideFmt

\* body, system_text = _format_messages_claude(messages)
FormatClaude ==
    /\ fmt_pc = "input"
    /\ fmt_pc' = "returned"
    /\ fmt_body' = FormatMessagesClaude(fmt_messages).body
    /\ fmt_system_text' = FormatMessagesClaude(fmt_messages).system_text
    /\ UNCHANGED fmt_messages
    /\ UNCHANGED outsideFmt

NextFmt ==
    \/ \E m \in ClaudeUniverse : FmtAddMessage(m)
    \/ FormatClaude

SpecFmt == InitFmt /\ [][NextFmt]_vars

\* ------------------------------------------------------------------------
\* Properties of _format_messages_claude (checked under SpecFmt)
\* ------------------------------------------------------------------------
FmtReturned == fmt_pc = "returned"

\* The roles of the input once system messages are removed and every role
\* other than user is read as assistant.
RECURSIVE RemainingRoles(_)
RemainingRoles(ms) ==
    IF ms = <<>> THEN <<>>
    ELSE IF ms[1].role = "system" THEN RemainingRoles(Tail(ms))
    ELSE <<IF ms[1].role = "user" THEN "user" ELSE "assistant">>
             \o RemainingRoles(Tail(ms))

\* One role per maximal run of equal roles.
RECURSIVE RunRoles(_)
RunRoles(rs) ==
    IF Len(rs) <= 1 THEN rs
    ELSE IF rs[1] = rs[2] THEN RunRoles(Tail(rs))
    ELSE <<rs[1]>> \o RunRoles(Tail(rs))

BodyRoles == [i \in 1..Len(fmt_body) |-> fmt_body[i].role]

StartsWithNonUser(ms) ==
    RemainingRoles(ms) # <<>> /\ RemainingRoles(ms)[1] # "user"

\* C11: the body returned by the Claude formatter never holds two adjacent
\* messages of the same role, and every maximal run of same-role messages
\* of the input (system messages removed, roles coerced) has become exactly
\* one message of that role, in order.
C11_RunsMerged ==
    FmtReturned =>
        /\ \A i \in 1..(Len(fmt_body) - 1) :
               fmt_body[i].role # fmt_body[i + 1].role
        /\ BodyRoles =
               (IF StartsWithNonUser(fmt_messages) THEN <<"user">> ELSE <<>>)
                   \o RunRoles(RemainingRoles(fmt_messages))

\* A run of three user messages, interrupted by a system message, has been
\* merged into one message.
C11_Witness ==
    /\ FmtReturned
    /\ Len(fmt_messages) = 4
    /\ RemainingRoles(fmt_messages) = <<"user", "user", "user">>
    /\ fmt_messages[2].role = "system"
    /\ Len(fmt_body) = 1

\* C12: a non-empty body starts with a user message; when the first message
\* left after system removal is not a user message, the body is the
\* "(start)" placeholder followed by the merged messages, unchanged.
C12_StartsWithUser ==
    FmtReturned =>
        /\ fmt_body # <<>> => fmt_body[1].role = "user"
        /\ StartsWithNonUser(fmt_messages) =>
               /\ fmt_body[1] = START_PLACEHOLDER
               /\ Tail(fmt_body) =
                      ClaudeLoop([body |-> <<>>, system_text |-> {}],
                                 fmt_messages).body
               /\ fmt_body[2].role = "assistant"

\* The conversation opens with a tool message, read as assistant, that a
\* user message follows.
C12_Witness ==
    /\ FmtReturned
    /\ Len(fmt_messages) >= 2
    /\ fmt_messages[1].role = "tool"
    /\ fmt_messages[2].role = "user"
    /\ Len(fmt_body) = 3

SideParts(c, keepEmpty) ==
    IF c.kind = "list" THEN c.parts
    ELSE IF c.text = "" /\ ~keepEmpty THEN <<>>
    ELSE <<[type |-> "text", text |-> c.text]>>

MergedContent(c, d, keepEmpty) ==
    IF c.kind = "str" /\ d.kind = "str"
    THEN [kind |-> "str", text |-> c.text \o "\n" \o d.text]
    ELSE [kind |-> "list", parts |-> SideParts(c, keepEmpty) \o SideParts(d, keepEmpty)]

\* The body the merging rule gives: system messages left out, roles read
\* as user or assistant, images converted, each run folded left to right.
RECURSIVE MergedBody(_, _, _)
MergedBody(acc, ms, keepEmpty) ==
    IF ms = <<>> THEN acc
    ELSE IF ms[1].role = "system" THEN MergedBody(acc, Tail(ms), keepEmpty)
    ELSE LET role == IF ms[1].role = "user" THEN "user" ELSE "assistant"
             content == IF ms[1].content.kind = "list"
                        THEN [kind |-> "list",
                              parts |-> ConvertImagePartsForClaude(ms[1].content.parts)]
                        ELSE ms[1].content
         IN IF acc # <<>> /\ acc[Len(acc)].role = role
            THEN MergedBody(
                    [acc EXCEPT ![Len(acc)] =
                        [role |-> role,
                         content |-> MergedContent(acc[Len(acc)].content, content,
                                                   keepEmpty)]],
                    Tail(ms), keepEmpty)
            ELSE MergedBody(Append(acc, [role |-> role, content |-> content]),
                            Tail(ms), keepEmpty)

\* The body returned, without the "(start)" placeholder.
BodyMerged ==
    IF StartsWithNonUser(fmt_messages) THEN Tail(fmt_body) ELSE fmt_body

\* C33 (as stated): merging two string contents gives the first, a newline
\* and the second; when either side is multipart the result is the parts
\* of the first followed by the parts of the second, a string side
\* becoming one text part; the content of the run is kept in input order.
C33_StringSideBecomesOnePart ==
    FmtReturned => BodyMerged = MergedBody(<<>>, fmt_messages, TRUE)

\* C33 (amended): as stated, except that an empty string side contributes
\* no part to a multipart result.
C33_NonEmptyStringSideBecomesOnePart ==
    FmtReturned => BodyMerged = MergedBody(<<>>, fmt_messages, FALSE)

\* C33 witness: a string message and a multipart message of the same role
\* were merged into the text part of the first followed by the parts of
\* the second.
C33_Witness ==
    /\ FmtReturned
    /\ Len(fmt_messages) = 2
    /\ fmt_messages[1] = Msg("user", Str("old?"))
    /\ fmt_messages[2].role = "user"
    /\ fmt_messages[2].content.kind = "list"
    /\ Len(fmt_body) = 1
    /\ Len(fmt_body[1].content.parts) = 3
    /\ fmt_body[1].content.parts[1] = TextPart("old?")

\* ------------------------------------------------------------------------
\* JSON values as json.loads returns them, tagged by their Python type:
\*   "invalid" stands for text on which json.loads raises JSONDecodeError
\* ------------------------------------------------------------------------
JInvalid == [t |-> "invalid"]
JNull == [t |-> "null"]
JStr(s) == [t |-> "str", v |-> s]
JNum(n) == [t |-> "num", v |-> n]
JList(xs) == [t |-> "list", v |-> xs]
JObj(f) == [t |-> "obj", v |-> f]
JEmptyObj == JObj(<<>>)

\* dict.get(key, default)
Get(o, key, default) == IF key \in DOMAIN o.v THEN o.v[key] ELSE default

\* Python truthiness: `not x`
Falsy(j) ==
    \/ j.t = "null"
    \/ j.t = "num" /\ j.v = 0
    \/ j.t = "str" /\ j.v = ""
    \/ j.t = "list" /\ j.v = <<>>
    \/ j.t = "obj" /\ DOMAIN j.v = {}

IsStr(j, s) == j.t = "str" /\ j.v = s

\* str(x) as used in the f-string of the error fragment
PyStr(j) ==
    CASE j.t = "str" -> j.v
      [] j.t = "null" -> "None"
      [] j.t = "num" -> ToString(j.v)
      [] j.t = "list" /\ j.v = <<>> -> "[]"
      [] j.t = "obj" /\ DOMAIN j.v = {} -> "{}"
      [] OTHER -> "{...}"

\* ------------------------------------------------------------------------
\* Lines of the stream: the text of the line, and what json.loads gives
\* for the text after "data: "
\* ------------------------------------------------------------------------
Line(text, json) == [text |-> text, json |-> json]

BlankLine == Line("", JInvalid)
DoneLine == Line("data: [DONE]", JInvalid)
BadJsonLine == Line("data: {\"choices\": [{\"del", JInvalid)
NullLine == Line("data: null", JNull)

DeltaLine(c) ==
    Line("data: {\"choices\":[{\"delta\":{\"content\":\"" \o c \o "\"}}]}",
         JObj([choices |-> JList(<<JObj([delta |-> JObj([content |-> JStr(c)])])>>)]))

GenericLines ==
    { BlankLine,
      Line(": keep-alive", JInvalid),
      DoneLine,
      DeltaLine("A"),
      DeltaLine("B"),
      DeltaLine(""),
      Line("data: {\"choices\":[]}", JObj([choices |-> JList(<<>>)])),
      BadJsonLine,
      Line("data: {\"choices\":{\"a\":1}}",
           JObj([choices |-> JObj([a |-> JNum(1)])])),
      NullLine,
      Line("data: {\"choices\":[{\"delta\":null}]}",
           JObj([choices |-> JList(<<JObj([delta |-> JNull])>>)])) }

TextDeltaLine(c) ==
    Line("data: {\"type\":\"content_block_delta\",\"delta\":{\"type\":\"text_delta\",\"text\":\""
             \o c \o "\"}}",
         JObj([type |-> JStr("content_block_delta"),
               delta |-> JObj([type |-> JStr("text_delta"), text |-> JStr(c)])]))

OverloadedLine ==
    Line("data: {\"type\":\"error\",\"error\":{\"type\":\"overloaded_error\",\"message\":\"Overloaded\"}}",
         JObj([type |-> JStr("error"),
               error |-> JObj([type |-> JStr("overloaded_error"),
                               message |-> JStr("Overloaded")])]))

ClaudeLines ==
    { BlankLine,
      Line("event: content_block_delta", JInvalid),
      DoneLine,
      TextDeltaLine("A"),
      TextDeltaLine("B"),
      Line("data: {\"type\":\"content_block_delta\",\"delta\":{\"type\":\"input_json_delta\"}}",
           JObj([type |-> JStr("content_block_delta"),
                 delta |-> JObj([type |-> JStr("input_json_delta")])])),
      Line("data: {\"type\":\"message_stop\"}", JObj([type |-> JStr("message_stop")])),
      OverloadedLine,
      Line("data: {\"type\":\"error\"}", JObj([type |-> JStr("error")])),
      Line("data: {\"type\":\"error\",\"error\":\"boom\"}",
           JObj([type |-> JStr("error"), error |-> JStr("boom")])),
      BadJsonLine,
      NullLine }

LinesOf(grammar) == IF grammar = "claude" THEN ClaudeLines ELSE GenericLines

\* if not raw_line: continue / if not line.startswith("data: "): continue
IsDataLine(l) == l.text # "" /\ StartsWith(l.text, "data: ")

\* payload = line[6:]
Payload(l) == SubSeq(l.text, 7, Len(l.text))

IsDone(l) == IsDataLine(l) /\ Payload(l) = "[DONE]"
IsChunk(l) == IsDataLine(l) /\ Payload(l) # "[DONE]"

\* ------------------------------------------------------------------------
\* The body of the `try` of each decoder, as its effect on one chunk:
\*   [kind |-> "yield", v]   a fragment is yielded and chunk_count grows
\*   [kind |-> "skip"]       nothing is yielded
\*   [kind |-> "exc", exc]   the named exception is raised inside the try
\*   [kind |-> "error", v]   (Claude) the error text is yielded, then break
\* ------------------------------------------------------------------------
YieldOf(v) == [kind |-> "yield", v |-> v]
SkipChunk == [kind |-> "skip"]
ExcOf(e) == [kind |-> "exc", exc |-> e]
ErrorOf(v) == [kind |-> "error", v |-> v]

\* x[0] for a non-empty list or string
FirstOf(j) == IF j.t = "list" THEN j.v[1] ELSE JStr(SubSeq(j.v, 1, 1))

\* _parse_sse, lines 447-454
GenericChunk(j) ==
    IF j.t = "invalid" THEN ExcOf("JSONDecodeError")
    ELSE IF j.t # "obj" THEN ExcOf("AttributeError")
    ELSE LET choices == Get(j, "choices", JList(<<>>)) IN
    IF Falsy(choices) THEN SkipChunk
    ELSE IF choices.t = "obj" THEN ExcOf("KeyError")
    ELSE IF choices.t = "num" THEN ExcOf("TypeError")
    ELSE IF FirstOf(choices).t # "obj" THEN ExcOf("AttributeError")
    ELSE LET delta == Get(FirstOf(choices), "delta", JEmptyObj) IN
    IF delta.t # "obj" THEN ExcOf("AttributeError")
    ELSE LET content == Get(delta, "content", JStr("")) IN
    IF Falsy(content) THEN SkipChunk ELSE YieldOf(content)

\* The f-string of line 517; the warning sign U+26A0 U+FE0F is written (!)
ClaudeErrorText(err_type, err_msg) ==
    "\n\n(!) Claude stream error [" \o PyStr(err_type) \o "]: " \o PyStr(err_msg)

\* _parse_claude_sse, lines 498-518
ClaudeChunk(j) ==
    IF j.t = "invalid" THEN ExcOf("JSONDecodeError")
    ELSE IF j.t # "obj" THEN ExcOf("AttributeError")
    ELSE LET chunk_type == Get(j, "type", JStr("")) IN
    IF IsStr(chunk_type, "content_block_delta")
    THEN LET delta == Get(j, "delta", JEmptyObj) IN
         IF delta.t # "obj" THEN ExcOf("AttributeError")
         ELSE IF ~IsStr(Get(delta, "type", JNull), "text_delta") THEN SkipChunk
         ELSE IF Falsy(Get(delta, "text", JStr(""))) THEN SkipChunk
         ELSE YieldOf(Get(delta, "text", JStr("")))
    ELSE IF IsStr(chunk_type, "error")
    THEN LET err == Get(j, "error", JEmptyObj) IN
         IF err.t # "obj" THEN ExcOf("AttributeError")
         ELSE ErrorOf(JStr(ClaudeErrorText(Get(err, "type", JStr("unknown_error")),
                                           Get(err, "message", JStr(PyStr(err))))))
    ELSE SkipChunk

ChunkEffect(grammar, j) ==
    IF grammar = "claude" THEN ClaudeChunk(j) ELSE GenericChunk(j)

\* except json.JSONDecodeError / except (KeyError, IndexError)
CaughtByDecoder(exc) == exc \in {"JSONDecodeError", "KeyError", "IndexError"}

\* if chunk_count == 0 and error_count == 0: log.warning(...)
EmptyStreamWarning(chunks, errors) == chunks = 0 /\ errors = 0

\* ------------------------------------------------------------------------
\* SpecSse: a decoder reading one bounded stream
\* ------------------------------------------------------------------------
InitSse ==
    /\ sse_grammar \in {"generic", "claude"}
    /\ wire = <<>>
    /\ sse_pc = "open"
    /\ sse_idx = 0
    /\ yielded = <<>>
    /\ chunk_count = 0
    /\ error_count = 0
    /\ warned_empty = FALSE
    /\ sse_exc = ""
    /\ CtxIdle
    /\ CtxTokIdle
    /\ FmtIdle
    /\ LimIdle
    /\ ChatIdle
    /\ UiIdle
    /\ PmIdle
    /\ StoreIdle
    /\ PollIdle

HasLine == sse_pc = "reading" /\ sse_idx < Len(wire)
CurLine == wire[sse_idx + 1]
CurEffect == ChunkEffect(sse_grammar, CurLine.json)

\* The server writes one more line of the response.
SseSend(l) ==
    /\ sse_pc = "open"
    /\ Len(wire) < MaxLines
    /\ wire' = Append(wire, l)
    /\ UNCHANGED <<sse_grammar, sse_pc, sse_idx, yielded, chunk_count, error_count,
                   warned_empty, sse_exc>>
    /\ UNCHANGED outsideSse

\* The consumer starts iterating the generator chat() returned.
SseStart ==
    /\ sse_pc = "open"
    /\ sse_pc' = "reading"
    /\ UNCHANGED <<sse_grammar, wire, sse_idx, yielded, chunk_count, error_count,
                   warned_empty, sse_exc>>
    /\ UNCHANGED outsideSse

\* An empty line, or one that does not start with "data: ": continue
SseSkipLine ==
    /\ HasLine
    /\ ~IsDataLine(CurLine)
    /\ sse_idx' = sse_idx + 1
    /\ UNCHANGED <<sse_grammar, wire, sse_pc, yielded, chunk_count, error_count,
                   warned_empty, sse_exc>>
    /\ UNCHANGED outsideSse

\* payload == "[DONE]": break, then the code after the loop
SseDone ==
    /\ HasLine
    /\ IsDone(CurLine)
    /\ sse_idx' = sse_idx + 1
    /\ warned_empty' = EmptyStreamWarning(chunk_count, error_count)
    /\ sse_pc' = "done"
    /\ UNCHANGED <<sse_grammar, wire, yielded, chunk_count, error_count, sse_exc>>
    /\ UNCHANGED outsideSse

\* chunk_count += 1; yield
SseYield ==
    /\ HasLine
    /\ IsChunk(CurLine)
    /\ CurEffect.kind = "yield"
    /\ sse_idx' = sse_idx + 1
    /\ chunk_count' = chunk_count + 1
    /\ yielded' = Append(yielded, CurEffect.v)
    /\ UNCHANGED <<sse_grammar, wire, sse_pc, error_count, warned_empty, sse_exc>>
    /\ UNCHANGED outsideSse

\* A chunk with no text to yield.
SseNoText ==
    /\ HasLine
    /\ IsChunk(CurLine)
    /\ CurEffect.kind = "skip"
    /\ sse_idx' = sse_idx + 1
    /\ UNCHANGED <<sse_grammar, wire, sse_pc, yielded, chunk_count, error_count,
                   warned_empty, sse_exc>>
    /\ UNCHANGED outsideSse

\* An exception one of the except clauses handles: error_count += 1
SseCaught ==
    /\ HasLine
    /\ IsChunk(CurLine)
    /\ CurEffect.kind = "exc"
    /\ CaughtByDecoder(CurEffect.exc)
    /\ sse_idx' = sse_idx + 1
    /\ error_count' = error_count + 1
    /\ UNCHANGED <<sse_grammar, wire, sse_pc, yielded, chunk_count, warned_empty,
                   sse_exc>>
    /\ UNCHANGED outsideSse

\* An exception no except clause handles leaves the generator.
SseRaise ==
    /\ HasLine
    /\ IsChunk(CurLine)
    /\ CurEffect.kind = "exc"
    /\ ~CaughtByDecoder(CurEffect.exc)
    /\ sse_idx' = sse_idx + 1
    /\ sse_pc' = "raised"
    /\ sse_exc' = CurEffect.exc
    /\ UNCHANGED <<sse_grammar, wire, yielded, chunk_count, error_count, warned_empty>>
    /\ UNCHANGED outsideSse

\* Claude `error` event: yield the error text, break, the code after the loop
SseErrorEvent ==
    /\ HasLine
    /\ IsChunk(CurLine)
    /\ CurEffect.kind = "error"
    /\ sse_idx' = sse_idx + 1
    /\ yielded' = Append(yielded, CurEffect.v)
    /\ warned_empty' = EmptyStreamWarning(chunk_count, error_count)
    /\ sse_pc' = "done"
    /\ UNCHANGED <<sse_grammar, wire, chunk_count, error_count, sse_exc>>
    /\ UNCHANGED outsideSse

\* iter_lines() is exhausted: the code after the loop
SseExhausted ==
    /\ sse_pc = "reading"
    /\ sse_idx = Len(wire)
    /\ warned_empty' = EmptyStreamWarning(chunk_count, error_count)
    /\ sse_pc' = "done"
    /\ UNCHANGED <<sse_grammar, wire, sse_idx, yielded, chunk_count, error_count,
                   sse_exc>>
    /\ UNCHANGED outsideSse

NextSse ==
    \/ \E l \in LinesOf(sse_grammar) : SseSend(l)
    \/ SseStart
    \/ SseSkipLine
    \/ SseDone
    \/ SseYield
    \/ SseNoText
    \/ SseCaught
    \/ SseRaise
    \/ SseErrorEvent
    \/ SseExhausted

SpecSse == InitSse /\ [][NextSse]_vars

\* ------------------------------------------------------------------------
\* Properties of the streaming decoders (checked under SpecSse)
\* ------------------------------------------------------------------------
SseEnded == sse_pc \in {"done", "raised"}

Has(j, key) == j.t = "obj" /\ key \in DOMAIN j.v

\* The line carries a non-empty string at choices[0].delta.content.
HasContent(l) ==
    /\ IsChunk(l)
    /\ Has(l.json, "choices")
    /\ l.json.v.choices.t = "list"
    /\ l.json.v.choices.v # <<>>
    /\ Has(l.json.v.choices.v[1], "delta")
    /\ Has(l.json.v.choices.v[1].v.delta, "content")
    /\ l.json.v.choices.v[1].v.delta.v.content.t = "str"
    /\ l.json.v.choices.v[1].v.delta.v.content.v # ""

ContentOf(l) == l.json.v.choices.v[1].v.delta.v.content

\* The contents carried by the lines before the first "data: [DONE]".
RECURSIVE ContentsBeforeDone(_)
ContentsBeforeDone(ws) ==
    IF ws = <<>> \/ ws[1].text = "data: [DONE]" THEN <<>>
    ELSE (IF HasContent(ws[1]) THEN <<ContentOf(ws[1])>> ELSE <<>>)
             \o ContentsBeforeDone(Tail(ws))

\* C14: when the generic decoder has ended, what it yielded is exactly the
\* sequence of non-empty choices[0].delta.content values of the data lines
\* standing before the first "data: [DONE]", in wire order.
C14_YieldsContentsBeforeDone ==
    (sse_grammar = "generic" /\ SseEnded) => yielded = ContentsBeforeDone(wire)

\* The shape each decoder reads: an object whose fields, where present,
\* have the types the decoder dereferences.
GenericShape(j) ==
    /\ j.t = "obj"
    /\ Has(j, "choices") =>
           /\ j.v.choices.t = "list"
           /\ j.v.choices.v # <<>> =>
                  /\ j.v.choices.v[1].t = "obj"
                  /\ Has(j.v.choices.v[1], "delta") =>
                         j.v.choices.v[1].v.delta.t = "obj"

ClaudeShape(j) ==
    /\ j.t = "obj"
    /\ (Has(j, "type") /\ IsStr(j.v.type, "content_block_delta") /\ Has(j, "delta"))
           => j.v.delta.t = "obj"
    /\ (Has(j, "type") /\ IsStr(j.v.type, "error") /\ Has(j, "error"))
           => j.v.error.t = "obj"

\* A data line that is not valid JSON, or valid JSON of another shape.
Malformed(l) ==
    /\ IsChunk(l)
    /\ IF sse_grammar = "claude" THEN ~ClaudeShape(l.json) ELSE ~GenericShape(l.json)

\* C15: in both decoders, reading a data line that is not valid JSON, or is
\* valid JSON without the expected shape, yields nothing, raises nothing to
\* the consumer and leaves the decoder reading the following lines.
C15_MalformedLineSkipped ==
    [][(HasLine /\ Malformed(CurLine)) =>
           /\ sse_pc' = "reading"
           /\ sse_exc' = ""
           /\ sse_idx' = sse_idx + 1
           /\ yielded' = yielded]_vars

IsErrorEvent(l) == IsChunk(l) /\ Has(l.json, "type") /\ IsStr(l.json.v.type, "error")

IsOtherEvent(l) ==
    /\ IsChunk(l)
    /\ l.json.t = "obj"
    /\ ~(Has(l.json, "type") /\ IsStr(l.json.v.type, "content_block_delta"))
    /\ ~(Has(l.json, "type") /\ IsStr(l.json.v.type, "error"))

\* C16: in the Claude decoder, reading an `error` event adds exactly one
\* fragment to what was yielded before and ends the sequence without an
\* exception, nothing is yielded once the sequence has ended, and reading
\* an event of a type other than content_block_delta and error yields
\* nothing and leaves the decoder reading.
C16_ErrorEventEndsStream ==
    [][/\ (sse_grammar = "claude" /\ HasLine /\ IsErrorEvent(CurLine)) =>
              /\ Len(yielded') = Len(yielded) + 1
              /\ SubSeq(yielded', 1, Len(yielded)) = yielded
              /\ sse_pc' = "done"
              /\ sse_exc' = ""
       /\ (sse_grammar = "claude" /\ HasLine /\ IsOtherEvent(CurLine)) =>
              /\ yielded' = yielded
              /\ sse_pc' = "reading"
       /\ SseEnded => yielded' = yielded]_vars

\* C32: in both decoders the empty-completion condition is reported
\* exactly when the stream has ended having yielded no fragment and hit no
\* parse error; it is not reported when a fragment was yielded, the
\* fragment of an error event included, or when a parse error was hit.
C32_EmptyReportedIffNothingYielded ==
    SseEnded =>
        (warned_empty <=> (yielded = <<>> /\ error_count = 0 /\ sse_exc = ""))

\* ------------------------------------------------------------------------
\* More string helpers (str.replace, str.split, str.join, str.isdigit)
\* ------------------------------------------------------------------------
RECURSIVE ReplaceChar(_, _, _)
ReplaceChar(s, old, new) ==
    IF s = "" THEN ""
    ELSE (IF SubSeq(s, 1, 1) = old THEN new ELSE SubSeq(s, 1, 1))
             \o ReplaceChar(SubSeq(s, 2, Len(s)), old, new)

RECURSIVE SplitOn(_, _)
SplitOn(s, sep) ==
    IF IndexOf(s, sep) = 0 THEN <<s>>
    ELSE <<BeforeFirst(s, sep)>> \o SplitOn(AfterFirst(s, sep), sep)

RECURSIVE JoinWith(_, _)
JoinWith(parts, sep) ==
    IF parts = <<>> THEN ""
    ELSE IF Len(parts) = 1 THEN parts[1]
    ELSE parts[1] \o sep \o JoinWith(Tail(parts), sep)

\* parts[i] and parts[i][0].isdigit()
StartsWithDigit(part) ==
    part # "" /\ SubSeq(part, 1, 1) \in {"0", "1", "2", "3", "4", "5", "6", "7", "8", "9"}

\* ------------------------------------------------------------------------
\* The model limits cache: fetch_model_limits, _store_model_aliases and
\* get_model_limits
\* ------------------------------------------------------------------------
COPILOT_MODELS_URL == "https://api.githubcopilot.com/models"

\* The thread of _load_model_limits and the thread of _send.
LimThreads == {"loader", "ui"}

\* ModelLimits(...) of lines 618-624, with the defaults of limits.get
ModelLimitsOf(limits) ==
    [max_context_window_tokens |-> Get(limits, "max_context_window_tokens", JNum(8192)),
     max_prompt_tokens |-> Get(limits, "max_prompt_tokens", JNum(8192)),
     max_output_tokens |-> Get(limits, "max_output_tokens", JNum(1024))]

FullLimits ==
    JObj([max_context_window_tokens |-> JNum(160000),
          max_prompt_tokens |-> JNum(128000),
          max_output_tokens |-> JNum(32000)])

OutputOnlyLimits == JObj([max_output_tokens |-> JNum(64000)])

CatalogEntry(id, limits) ==
    JObj([id |-> JStr(id), capabilities |-> JObj([limits |-> limits])])

EntryUniverse ==
    { CatalogEntry("claude-opus-4.5", FullLimits),
      CatalogEntry("claude-opus-4-5", OutputOnlyLimits),
      CatalogEntry("gpt-4o", FullLimits),
      CatalogEntry("gemini-1-5-pro", FullLimits),
      JObj([id |-> JStr("text-embedding-3-small"), capabilities |-> JEmptyObj]),
      JStr("oops") }

EntryLists == UNION { [1..n -> EntryUniverse] : n \in 0..MaxEntries }

\* What resp.json() can give.
CatalogBodies ==
    { JObj([data |-> JList(es)]) : es \in EntryLists }
        \cup { JList(es) : es \in EntryLists }
        \cup { JObj([data |-> JNull]), JObj([message |-> JStr("Not Found")]) }

\* The early returns of lines 566-587.
FetchFailures == {"HTTPError", "ConnectionError", "JSONDecodeError"}

\* Keys _store_model_aliases tries to store for model_id, in order:
\* guarded stores are those under `variant not in cache`.
AliasStore(key, guarded) == [key |-> key, guarded |-> guarded]

DotHyphenAliases(model_id) ==
    LET alts == <<ReplaceChar(model_id, ".", "-"), ReplaceChar(model_id, "-", ".")>>
    IN  SelectSeq([i \in 1..2 |-> AliasStore(alts[i], FALSE)],
                  LAMBDA a : a.key # model_id)

VersionVariant(parts, i) ==
    JoinWith(SubSeq(parts, 1, i), "-") \o "." \o JoinWith(SubSeq(parts, i + 1, Len(parts)), ".")

VersionAliases(model_id) ==
    LET parts == SplitOn(ReplaceChar(model_id, ".", "-"), "-")
        cand == [i \in 1..(Len(parts) - 1) |->
                    [use |-> StartsWithDigit(parts[i + 1])
                               /\ VersionVariant(parts, i) # model_id,
                     store |-> AliasStore(VersionVariant(parts, i), TRUE)]]
        kept == SelectSeq(cand, LAMBDA c : c.use)
    IN  [i \in 1..Len(kept) |-> kept[i].store]

AliasStores(model_id) == DotHyphenAliases(model_id) \o VersionAliases(model_id)

\* Faulty variant: the store replaces the dictionary.
Put_Replace(cache, key, value) == [x \in {key} |-> value]

\* cache[key] = value
Put(cache, key, value) ==
    [x \in DOMAIN cache \cup {key} |-> IF x = key THEN value ELSE cache[x]]

\* One store of _store_model_aliases (lines 872 and 885-886).
ApplyAliasStore(cache, a, value) ==
    IF a.guarded /\ a.key \in DOMAIN cache THEN cache ELSE Put(cache, a.key, value)

\* Lines 603-616 applied to one entry of `models`.
EntryEffect(e) ==
    IF e.t # "obj" THEN ExcOf("AttributeError")
    ELSE LET caps == Get(e, "capabilities", JEmptyObj) IN
    IF caps.t # "obj" THEN ExcOf("AttributeError")
    ELSE LET limits == Get(caps, "limits", JEmptyObj) IN
    IF Falsy(limits) THEN SkipChunk
    ELSE IF limits.t # "obj" THEN ExcOf("AttributeError")
    ELSE [kind |-> "store",
          model_id |-> Get(e, "id", JStr("")).v,
          lim |-> ModelLimitsOf(limits)]

\* Lines 590-597: the list to iterate, or none for an unexpected body.
HasModels(b) == (b.t = "obj" /\ "data" \in DOMAIN b.v) \/ b.t = "list"
ModelsOf(b) == IF b.t = "obj" THEN b.v.data ELSE b

\* self._model_limits.get(model_id)
GetModelLimits(cache, id) == IF id \in DOMAIN cache THEN {cache[id]} ELSE {}

LookupIds == {"claude-opus-4-5", "claude-opus-4.5"}

\* ------------------------------------------------------------------------
\* SpecLim: the loader thread inside fetch_model_limits, and the UI thread
\* calling get_model_limits at any moment
\* ------------------------------------------------------------------------
tokLocals == <<clock, pc, now, expires_seen, response, fetched, outcome, bearer>>

limLocals == <<models, entry_idx, lim, pending, fetch_failure, lim_exc, lim_returned>>

InitLim ==
    /\ LimIdle
    /\ CtxIdle
    /\ CtxTokIdle
    /\ FmtIdle
    /\ SseIdle
    /\ ChatIdle
    /\ UiIdle
    /\ PmIdle
    /\ StoreIdle
    /\ PollIdle

\* _load_model_limits calls self._client.fetch_model_limits()
LimCall ==
    /\ lim_pc = "idle"
    /\ refreshes < MaxRefreshes
    /\ refreshes' = refreshes + 1
    /\ cache_before' = model_limits
    /\ lim_pc' = "token"
    /\ UNCHANGED <<model_limits, limLocals, lookup_seen>>
    /\ UNCHANGED <<tokVars, outsideLim>>

\* self._ensure_token(): the token is still valid
LimTokenValid ==
    /\ lim_pc = "token"
    /\ ~NeedsRefresh(clock, token_expires_at)
    /\ lim_pc' = "get"
    /\ UNCHANGED <<model_limits, limLocals, cache_before, refreshes, lookup_seen>>
    /\ UNCHANGED <<tokVars, outsideLim>>

\* self._ensure_token(): the exchange succeeds and the pair is stored
LimTokenExchange(expires) ==
    /\ lim_pc = "token"
    /\ NeedsRefresh(clock, token_expires_at)
    /\ copilot_token' = TokenName(Len(issued) + 1)
    /\ token_expires_at' = expires
    /\ issued' = Append(issued, <<TokenName(Len(issued) + 1), expires>>)
    /\ requests_sent' = requests_sent + 1
    /\ lim_pc' = "get"
    /\ UNCHANGED <<model_limits, limLocals, cache_before, refreshes, lookup_seen>>
    /\ UNCHANGED <<tokLocals, outsideLim>>

\* self._ensure_token() raises CopilotAPIError, outside the try of line 554
LimTokenFails ==
    /\ lim_pc = "token"
    /\ NeedsRefresh(clock, token_expires_at)
    /\ requests_sent' = requests_sent + 1
    /\ FailureKeepsCredential
    /\ lim_pc' = "raised"
    /\ lim_exc' = "CopilotAPIError"
    /\ UNCHANGED <<model_limits, models, entry_idx, lim, pending, fetch_failure,
                   lim_returned, cache_before, refreshes, lookup_seen>>
    /\ UNCHANGED <<issued, tokLocals, outsideLim>>

\* requests.get / raise_for_status / resp.json() raise: return self._model_limits
LimGetFails(failure) ==
    /\ lim_pc = "get"
    /\ fetch_failure' = failure
    /\ lim_returned' = {model_limits}
    /\ lim_pc' = "returned"
    /\ UNCHANGED <<model_limits, models, entry_idx, lim, pending, lim_exc,
                   cache_before, refreshes, lookup_seen>>
    /\ UNCHANGED <<tokVars, outsideLim>>

\* body is neither a dict with "data" nor a list: return self._model_limits
LimGetUnexpected(b) ==
    /\ lim_pc = "get"
    /\ ~HasModels(b)
    /\ fetch_failure' = "unexpected body"
    /\ lim_returned' = {model_limits}
    /\ lim_pc' = "returned"
    /\ UNCHANGED <<model_limits, models, entry_idx, lim, pending, lim_exc,
                   cache_before, refreshes, lookup_seen>>
    /\ UNCHANGED <<tokVars, outsideLim>>

\* models = body["data"] or models = body
LimGetModels(b) ==
    /\ lim_pc = "get"
    /\ HasModels(b)
    /\ models' = ModelsOf(b)
    /\ entry_idx' = 0
    /\ lim_pc' = "loop"
    /\ UNCHANGED <<model_limits, lim, pending, fetch_failure, lim_exc, lim_returned,
                   cache_before, refreshes, lookup_seen>>
    /\ UNCHANGED <<tokVars, outsideLim>>

\* `for entry in models` on a value that cannot be iterated
LimNotIterable ==
    /\ lim_pc = "loop"
    /\ models.t \in {"null", "num"}
    /\ lim_pc' = "raised"
    /\ lim_exc' = "TypeError"
    /\ UNCHANGED <<model_limits, models, entry_idx, lim, pending, fetch_failure,
                   lim_returned, cache_before, refreshes, lookup_seen>>
    /\ UNCHANGED <<tokVars, outsideLim>>

HasEntry == lim_pc = "loop" /\ models.t = "list" /\ entry_idx < Len(models.v)
CurEntry == models.v[entry_idx + 1]

\* entry.get / caps.get / limits.keys on a value that is not a dict
LimEntryRaises ==
    /\ HasEntry
    /\ EntryEffect(CurEntry).kind = "exc"
    /\ lim_pc' = "raised"
    /\ lim_exc' = EntryEffect(CurEntry).exc
    /\ UNCHANGED <<model_limits, models, entry_idx, lim, pending, fetch_failure,
                   lim_returned, cache_before, refreshes, lookup_seen>>
    /\ UNCHANGED <<tokVars, outsideLim>>

\* if not limits: continue
LimEntrySkip ==
    /\ HasEntry
    /\ EntryEffect(CurEntry).kind = "skip"
    /\ entry_idx' = entry_idx + 1
    /\ UNCHANGED <<model_limits, lim_pc, models, lim, pending, fetch_failure, lim_exc,
                   lim_returned, cache_before, refreshes, lookup_seen>>
    /\ UNCHANGED <<tokVars, outsideLim>>

\* self._model_limits[model_id] = lim
LimStoreCanonical ==
    /\ HasEntry
    /\ EntryEffect(CurEntry).kind = "store"
    /\ lim' = {EntryEffect(CurEntry).lim}
    /\ model_limits' = Put(model_limits, EntryEffect(CurEntry).model_id,
                           EntryEffect(CurEntry).lim)
    /\ pending' = AliasStores(EntryEffect(CurEntry).model_id)
    /\ lim_pc' = "store"
    /\ UNCHANGED <<models, entry_idx, fetch_failure, lim_exc, lim_returned,
                   cache_before, refreshes, lookup_seen>>
    /\ UNCHANGED <<tokVars, outsideLim>>

\* _store_model_aliases: the next `cache[...] = lim`, or its guard failing
LimStoreAlias ==
    /\ lim_pc = "store"
    /\ pending # <<>>
    /\ model_limits' = ApplyAliasStore(model_limits, Head(pending),
                                       CHOOSE v \in lim : TRUE)
    /\ pending' = Tail(pending)
    /\ UNCHANGED <<lim_pc, models, entry_idx, lim, fetch_failure, lim_exc,
                   lim_returned, cache_before, refreshes, lookup_seen>>
    /\ UNCHANGED <<tokVars, outsideLim>>

\* _store_model_aliases returns; the loop goes to the next entry
LimEntryDone ==
    /\ lim_pc = "store"
    /\ pending = <<>>
    /\ entry_idx' = entry_idx + 1
    /\ lim' = {}
    /\ lim_pc' = "loop"
    /\ UNCHANGED <<model_limits, models, pending, fetch_failure, lim_exc,
                   lim_returned, cache_before, refreshes, lookup_seen>>
    /\ UNCHANGED <<tokVars, outsideLim>>

\* return self._model_limits (line 640)
LimLoopEnd ==
    /\ lim_pc = "loop"
    /\ models.t = "list"
    /\ entry_idx = Len(models.v)
    /\ lim_returned' = {model_limits}
    /\ lim_pc' = "returned"
    /\ UNCHANGED <<model_limits, models, entry_idx, lim, pending, fetch_failure,
                   lim_exc, cache_before, refreshes, lookup_seen>>
    /\ UNCHANGED <<tokVars, outsideLim>>

\* _load_model_limits ends, normally or in its `except Exception`.
LimReturn ==
    /\ lim_pc \in {"returned", "raised"}
    /\ lim_pc' = "idle"
    /\ models' = JList(<<>>)
    /\ entry_idx' = 0
    /\ lim' = {}
    /\ pending' = <<>>
    /\ fetch_failure' = ""
    /\ lim_exc' = ""
    /\ lim_returned' = {}
    /\ cache_before' = model_limits
    /\ UNCHANGED <<model_limits, refreshes, lookup_seen>>
    /\ UNCHANGED <<tokVars, outsideLim>>

\* _send on the UI thread: self._client.get_model_limits(model_id)
Lookup(id) ==
    /\ lookup_seen' = [id |-> id, limits |-> GetModelLimits(model_limits, id)]
    /\ UNCHANGED <<model_limits, lim_pc, limLocals, cache_before, refreshes>>
    /\ UNCHANGED <<tokVars, outsideLim>>

NextLim ==
    \/ LimCall
    \/ LimTokenValid
    \/ \E l \in Lifetimes : LimTokenExchange(clock + l)
    \/ LimTokenFails
    \/ \E f \in FetchFailures : LimGetFails(f)
    \/ \E b \in CatalogBodies : LimGetUnexpected(b)
    \/ \E b \in CatalogBodies : LimGetModels(b)
    \/ LimNotIterable
    \/ LimEntryRaises
    \/ LimEntrySkip
    \/ LimStoreCanonical
    \/ LimStoreAlias
    \/ LimEntryDone
    \/ LimLoopEnd
    \/ LimReturn
    \/ \E id \in LookupIds : Lookup(id)

SpecLim == InitLim /\ [][NextLim]_vars

\* ------------------------------------------------------------------------
\* Properties of the model limits cache (checked under SpecLim)
\* ------------------------------------------------------------------------
LimEnded == lim_pc \in {"returned", "raised"}

\* The entry has an id and non-empty limits, so the loop registers it.
HasLimits(e) ==
    /\ Has(e, "id")
    /\ Has(e, "capabilities")
    /\ Has(e.v.capabilities, "limits")
    /\ e.v.capabilities.v.limits.t = "obj"
    /\ DOMAIN e.v.capabilities.v.limits.v # {}

\* The loop has just finished registering an entry whose id is `id`.
JustRegistered(id) ==
    /\ lim_pc = "loop"
    /\ entry_idx >= 1
    /\ HasLimits(models.v[entry_idx])
    /\ IsStr(models.v[entry_idx].v.id, id)

AliasPairs ==
    { <<"claude-opus-4.5", "claude-opus-4-5">>,
      <<"claude-opus-4-5", "claude-opus-4.5">> }

\* C17: once limits have been registered under the canonical id
\* "claude-opus-4.5", the lookup of "claude-opus-4-5" returns those same
\* limits, and the same with the two spellings exchanged.
C17_AliasLaw ==
    \A p \in AliasPairs :
        JustRegistered(p[1]) =>
            /\ GetModelLimits(model_limits, p[1]) # {}
            /\ GetModelLimits(model_limits, p[2]) = GetModelLimits(model_limits, p[1])

\* The catalog fetch of the call that has ended failed: an HTTP error, a
\* network error, an unparsable body, or a body or entry of another shape.
WellShapedEntry(e) ==
    /\ e.t = "obj"
    /\ Has(e, "capabilities") =>
           /\ e.v.capabilities.t = "obj"
           /\ Has(e.v.capabilities, "limits") =>
                  e.v.capabilities.v.limits.t \in {"obj", "null"}

FetchFailed ==
    \/ fetch_failure # ""
    \/ models.t # "list"
    \/ \E i \in 1..Len(models.v) : ~WellShapedEntry(models.v[i])

\* The two spellings of an id: every separator a hyphen, and a dot between
\* two segments that both begin with a digit.
RECURSIVE JoinVersion(_)
JoinVersion(segs) ==
    IF Len(segs) <= 1 THEN JoinWith(segs, "-")
    ELSE segs[1]
         \o (IF StartsWithDigit(segs[1]) /\ StartsWithDigit(segs[2]) THEN "." ELSE "-")
         \o JoinVersion(Tail(segs))

HyphenSpelling(id) == ReplaceChar(id, ".", "-")
DotSpelling(id) == JoinVersion(SplitOn(HyphenSpelling(id), "-"))

\* The id of the entry the loop has just registered.
RegisteredId == models.v[entry_idx].v.id.v

\* C31: once refresh has stored the limits of a canonical id, lookup
\* returns those limits under the spelling with hyphens between the version
\* segments and under the spelling with dots between them, whichever of
\* the two the catalog used.
C31_BothSpellingsResolve ==
    (lim_pc = "loop" /\ entry_idx >= 1 /\ HasLimits(models.v[entry_idx])) =>
        /\ GetModelLimits(model_limits, RegisteredId) # {}
        /\ GetModelLimits(model_limits, HyphenSpelling(RegisteredId))
              = GetModelLimits(model_limits, RegisteredId)
        /\ GetModelLimits(model_limits, DotSpelling(RegisteredId))
              = GetModelLimits(model_limits, RegisteredId)

\* The limits of the last entry of the catalog whose id is that of entry i.
OwnLimits(i) ==
    LET same == { j \in 1..Len(models.v) :
                     HasLimits(models.v[j]) /\ models.v[j].v.id = models.v[i].v.id }
        last == CHOOSE j \in same : \A k \in same : k <= j
        lm == models.v[last].v.capabilities.v.limits
    IN [max_context_window_tokens |->
            IF Has(lm, "max_context_window_tokens")
            THEN lm.v.max_context_window_tokens ELSE [t |-> "num", v |-> 8192],
        max_prompt_tokens |->
            IF Has(lm, "max_prompt_tokens")
            THEN lm.v.max_prompt_tokens ELSE [t |-> "num", v |-> 8192],
        max_output_tokens |->
            IF Has(lm, "max_output_tokens")
            THEN lm.v.max_output_tokens ELSE [t |-> "num", v |-> 1024]]

\* The call has processed every entry of a catalog and returned.
CatalogProcessed ==
    /\ lim_pc = "returned"
    /\ ~FetchFailed

\* C36: after refresh has processed a catalog, lookup of every canonical id
\* of the catalog that has limits returns the limits of that id's own
\* entry: an alias of another model never replaces them, whatever the order
\* of the entries.
C36_CanonicalEntryKept ==
    CatalogProcessed =>
        \A i \in 1..Len(models.v) :
            HasLimits(models.v[i]) =>
                GetModelLimits(model_limits, models.v[i].v.id.v) = {OwnLimits(i)}

\* C18: when a call of fetch_model_limits whose catalog fetch failed has
\* ended, it has returned (not raised), the cache is the mapping it was
\* when the call started, and that mapping is what was returned.
C18_FailureKeepsCache ==
    (LimEnded /\ lim_exc # "CopilotAPIError" /\ FetchFailed) =>
        /\ lim_pc = "returned"
        /\ model_limits = cache_before
        /\ lim_returned = {cache_before}

\* C19: no step of any call of fetch_model_limits removes a key from the
\* cache: every id that resolves keeps resolving.
C19_KeysNeverShrink ==
    [][DOMAIN model_limits \subseteq DOMAIN model_limits']_vars

\* A second call has returned; the keys of the first catalog are still
\* there beside those the second catalog added.
C19_Witness ==
    /\ refreshes = 2
    /\ lim_pc = "returned"
    /\ fetch_failure = ""
    /\ "claude-opus-4-5" \in DOMAIN cache_before
    /\ "gpt-4o" \notin DOMAIN cache_before
    /\ {"claude-opus-4-5", "gpt-4o"} \subseteq DOMAIN model_limits

\* The cache a whole call leaves, computed entry by entry from the cache
\* the call started with.
RECURSIVE ApplyStores(_, _, _)
ApplyStores(cache, stores, value) ==
    IF stores = <<>> THEN cache
    ELSE ApplyStores(ApplyAliasStore(cache, Head(stores), value), Tail(stores), value)

RECURSIVE RegisterAll(_, _)
RegisterAll(cache, es) ==
    IF es = <<>> THEN cache
    ELSE LET eff == EntryEffect(es[1]) IN
         IF eff.kind = "exc" THEN cache
         ELSE IF eff.kind = "skip" THEN RegisterAll(cache, Tail(es))
         ELSE RegisterAll(ApplyStores(Put(cache, eff.model_id, eff.lim),
                                      AliasStores(eff.model_id), eff.lim),
                          Tail(es))

CacheAfter == IF models.t = "list" THEN RegisterAll(cache_before, models.v) ELSE cache_before

\* C20: whenever get_model_limits runs while fetch_model_limits is running,
\* the cache it reads is either the complete mapping from before the call
\* or the complete mapping the call leaves.
C20_LookupSeesCompleteCache ==
    [][lookup_seen' # lookup_seen =>
           (model_limits = cache_before \/ model_limits = CacheAfter)]_vars

\* ------------------------------------------------------------------------
\* CopilotClient.chat and the pure functions it calls
\* ------------------------------------------------------------------------
MaxTurns == 2

COPILOT_CHAT_URL == "https://api.githubcopilot.com/chat/completions"
COPILOT_CLAUDE_URL == "https://api.githubcopilot.com/v1/messages"

UpperChars == "ABCDEFGHIJKLMNOPQRSTUVWXYZ"
LowerChars == "abcdefghijklmnopqrstuvwxyz"

LowerChar(c) ==
    IF \E i \in 1..Len(UpperChars) : SubSeq(UpperChars, i, i) = c
    THEN LET i == CHOOSE k \in 1..Len(UpperChars) : SubSeq(UpperChars, k, k) = c
         IN SubSeq(LowerChars, i, i)
    ELSE c

\* str.lower()
RECURSIVE Lower(_)
Lower(s) ==
    IF s = "" THEN "" ELSE LowerChar(SubSeq(s, 1, 1)) \o Lower(SubSeq(s, 2, Len(s)))

\* sub in s
Contains(s, sub) ==
    \E i \in 1..(Len(s) - Len(sub) + 1) : SubSeq(s, i, i + Len(sub) - 1) = sub

\* Faulty variant: the identifier is not lower-cased first.
GetModelFamily_CaseSensitive(model_id) ==
    IF Contains(model_id, "claude") THEN "claude"
    ELSE IF Contains(model_id, "gemini") THEN "gemini"
    ELSE "openai"

\* get_model_family
GetModelFamily(model_id) ==
    LET mid == Lower(model_id) IN
    IF Contains(mid, "claude") THEN "claude"
    ELSE IF Contains(mid, "gemini") THEN "gemini"
    ELSE "openai"

\* _format_messages_openai
FormatMessagesOpenai(ms) == ms

\* The placeholder part of lines 192-196; its dash U+2014 is written "-".
GEMINI_IMAGE_NOTE ==
    TextPart("[Image attached - Gemini via Copilot proxy does not support inline images.]")

\* Faulty variant: an image part is dropped instead of replaced.
RECURSIVE GeminiParts_DropImages(_)
GeminiParts_DropImages(content) ==
    IF content = <<>> THEN <<>>
    ELSE (IF Head(content).type = "text" THEN <<Head(content)>> ELSE <<>>)
             \o GeminiParts_DropImages(Tail(content))

\* The loop of lines 186-196 over the parts of one message.
RECURSIVE GeminiParts(_)
GeminiParts(content) ==
    IF content = <<>> THEN <<>>
    ELSE (IF Head(content).type = "text" THEN <<Head(content)>>
          ELSE IF Head(content).type = "image_url" THEN <<GEMINI_IMAGE_NOTE>>
          ELSE <<>>)
             \o GeminiParts(Tail(content))

\* _format_messages_gemini
FormatMessagesGemini(ms) ==
    [i \in 1..Len(ms) |->
        IF ms[i].content.kind = "list"
        THEN [ms[i] EXCEPT !.content = Parts(GeminiParts(ms[i].content.parts))]
        ELSE ms[i]]

\* The float 0.1 of the payloads.
TEMPERATURE == "0.1"

\* max_output_tokens when no limits are cached (line 762).
DEFAULT_MAX_OUTPUT == 16000

\* _build_payload_openai
BuildPayloadOpenai(ms, model, stream) ==
    [model |-> model, messages |-> ms, stream |-> stream,
     n |-> 1, top_p |-> 1, temperature |-> TEMPERATURE]

\* _build_payload_gemini
BuildPayloadGemini(ms, model, stream) ==
    [model |-> model, messages |-> ms, stream |-> stream,
     n |-> 1, top_p |-> 1, temperature |-> TEMPERATURE]

\* Faulty variant: the system key is set whenever a system text was passed,
\* the empty one included.
BuildPayloadClaude_AnySystem(ms, model, stream, system_text, max_output_tokens) ==
    [model |-> model, messages |-> ms, max_tokens |-> max_output_tokens,
     stream |-> stream, temperature |-> TEMPERATURE]
        @@ [k \in {"system"} |-> IF system_text = {} THEN ""
                                 ELSE CHOOSE t \in system_text : TRUE]

\* _build_payload_claude; system_text is {} for None
BuildPayloadClaude(ms, model, stream, system_text, max_output_tokens) ==
    LET base == [model |-> model, messages |-> ms, max_tokens |-> max_output_tokens,
                 stream |-> stream, temperature |-> TEMPERATURE]
    IN IF system_text # {} /\ system_text # {""}
       THEN base @@ [k \in {"system"} |-> CHOOSE t \in system_text : TRUE]
       ELSE base

\* _summarise_payload; the ellipsis U+2026 is written "..."
SummarisePayload(p) ==
    [k \in DOMAIN p |->
        IF k = "messages" THEN "[" \o ToString(Len(p[k])) \o " messages]"
        ELSE IF k = "system" /\ Len(p[k]) > 80 THEN SubSeq(p[k], 1, 80) \o "..."
        ELSE p[k]]

\* Faulty variant: the defaults are used whether or not limits are cached.
TrimBudget_Defaults(limits) == <<MAX_CONTEXT_TOKENS, REPLY_BUFFER_TOKENS>>

\* The (max_tokens, reply_buffer_tokens) chat() calls build_context_window
\* with (lines 734-749); limits is {} for None.
TrimBudget(limits) ==
    IF limits # {}
    THEN <<(CHOOSE l \in limits : TRUE).max_prompt_tokens.v, 0>>
    ELSE <<MAX_CONTEXT_TOKENS, REPLY_BUFFER_TOKENS>>

\* build_context_window(messages, ...) raises ValueError
TrimRaises(ms, budget, e) ==
    ms # <<>> /\ BudgetExceeded(ms, budget[1], budget[2], e)

\* what build_context_window(messages, ...) returns
TrimResult(ms, budget, e) ==
    IF ms = <<>> THEN <<>> ELSE BuildResult(ms, budget[1], budget[2], e)

\* max_out = limits.max_output_tokens if limits else 16_000
MaxOut(limits) ==
    IF limits # {} THEN (CHOOSE l \in limits : TRUE).max_output_tokens
    ELSE JNum(DEFAULT_MAX_OUTPUT)

\* url = COPILOT_CLAUDE_URL / COPILOT_CHAT_URL (lines 783-787)
EndpointOf(family) ==
    IF family = "claude" THEN COPILOT_CLAUDE_URL ELSE COPILOT_CHAT_URL

\* ------------------------------------------------------------------------
\* Responses of the chat endpoints: status, response.text, response.json()
\* ------------------------------------------------------------------------
Response(status, text, json) ==
    [kind |-> "response", status_code |-> status, text |-> text, json |-> json]

\* response.ok
Ok(resp) == resp.status_code < 400

OpenAiReply ==
    Response(200, "{\"choices\": [{\"message\": {\"content\": \"Hi\"}}]}",
             JObj([choices |-> JList(<<JObj([message |->
                                        JObj([content |-> JStr("Hi")])])>>)]))

ClaudeReply ==
    Response(200, "{\"content\": [{\"type\": \"text\", \"text\": \"Hi\"}, "
                      \o "{\"type\": \"tool_use\"}, "
                      \o "{\"type\": \"text\", \"text\": \"there\"}]}",
             JObj([content |-> JList(<<JObj([type |-> JStr("text"), text |-> JStr("Hi")]),
                                       JObj([type |-> JStr("tool_use")]),
                                       JObj([type |-> JStr("text"),
                                             text |-> JStr("there")])>>)]))

\* 2xx bodies of a non-streaming request
OkBodies ==
    { OpenAiReply,
      ClaudeReply,
      Response(200, "<html>gateway</html>", JInvalid),
      Response(200, "{}", JEmptyObj),
      Response(200, "[]", JList(<<>>)),
      Response(200, "{\"choices\": []}", JObj([choices |-> JList(<<>>)])) }

\* The 2xx response of a streaming request: its lines are read by the decoder.
StreamResponse == Response(200, "", JInvalid)

ErrorResponses ==
    { Response(500, "Internal Server Error", JInvalid),
      Response(400, "{\"error\": {\"type\": \"invalid_request_error\", "
                        \o "\"message\": \"bad\"}}",
               JObj([error |-> JObj([type |-> JStr("invalid_request_error"),
                                     message |-> JStr("bad")])])) }

ChatResponses(stream) ==
    (IF stream THEN {StreamResponse} ELSE OkBodies) \cup ErrorResponses

\* ------------------------------------------------------------------------
\* How chat() ends
\* ------------------------------------------------------------------------
The(S) == CHOOSE x \in S : TRUE

ChatReturned(value, decoder) ==
    [kind |-> "returned", value |-> value, decoder |-> decoder]

\* An exception no handler of chat() names.
Uncaught(exc) == [kind |-> "raised", exc |-> exc]

\* CopilotAPIError(..., status_code=, endpoint=, model=, response_body=,
\* payload_summary=); summary is {} where the argument is not passed
ApiError(resp, url, model, summary) ==
    [kind |-> "raised", exc |-> "CopilotAPIError",
     status_code |-> {resp.status_code}, endpoint |-> url, model |-> model,
     response_body |-> Truncate500(resp.text), payload_summary |-> summary]

\* [b.get("text", "") for b in content_blocks if b.get("type") == "text"]
RECURSIVE TextsOf(_)
TextsOf(blocks) ==
    IF blocks = <<>> THEN <<>>
    ELSE (IF IsStr(Get(Head(blocks), "type", JNull), "text")
          THEN <<Get(Head(blocks), "text", JStr(""))>> ELSE <<>>)
             \o TextsOf(Tail(blocks))

\* Lines 815-836: the non-streaming Claude response
DecodeClaude(resp, url, model) ==
    LET body == resp.json IN
    IF body.t = "invalid" THEN ApiError(resp, url, model, {})
    ELSE IF body.t # "obj" THEN Uncaught("AttributeError")
    ELSE LET content_blocks == Get(body, "content", JList(<<>>)) IN
    IF content_blocks.t \in {"null", "num"} THEN Uncaught("TypeError")
    ELSE IF content_blocks.t = "str"
    THEN IF content_blocks.v = "" THEN ChatReturned(JStr(""), "claude")
         ELSE Uncaught("AttributeError")
    ELSE IF content_blocks.t = "obj"
    THEN IF DOMAIN content_blocks.v = {} THEN ChatReturned(JStr(""), "claude")
         ELSE Uncaught("AttributeError")
    ELSE IF \E i \in 1..Len(content_blocks.v) : content_blocks.v[i].t # "obj"
    THEN Uncaught("AttributeError")
    ELSE LET texts == TextsOf(content_blocks.v) IN
    IF \E i \in 1..Len(texts) : texts[i].t # "str" THEN Uncaught("TypeError")
    ELSE ChatReturned(JStr(JoinWith([i \in 1..Len(texts) |-> texts[i].v], "\n")),
                      "claude")

\* x[key]: {} where it raises KeyError or TypeError
Subscript(x, key) ==
    IF x = {} THEN {}
    ELSE IF The(x).t = "obj" /\ key \in DOMAIN The(x).v THEN {The(x).v[key]}
    ELSE {}

\* x[0]: {} where it raises IndexError, KeyError or TypeError
FirstItem(x) ==
    IF x = {} THEN {}
    ELSE IF The(x).t = "list" /\ The(x).v # <<>> THEN {The(x).v[1]}
    ELSE IF The(x).t = "str" /\ The(x).v # "" THEN {JStr(SubSeq(The(x).v, 1, 1))}
    ELSE {}

\* Lines 842-853: the non-streaming OpenAI/Gemini response
DecodeGeneric(resp, url, model) ==
    LET data == IF resp.json.t = "invalid" THEN {} ELSE {resp.json}
        content ==
            Subscript(Subscript(FirstItem(Subscript(data, "choices")), "message"),
                      "content")
    IN IF content = {} THEN ApiError(resp, url, model, {})
       ELSE ChatReturned(The(content), "generic")

\* Faulty variant: the handling goes on to the request after an exception.
ChatRaise_Continue(exc) ==
    /\ chat_pc' = "post"
    /\ chat_outcome' = exc

\* Faulty variant: a request the server refused is sent again.
ChatRaise_Retry(exc) ==
    /\ chat_pc' = IF chat_pc = "status" THEN "post" ELSE "raised"
    /\ chat_outcome' = exc

\* The exception leaves chat(): no statement of chat() runs after it.
ChatRaise(exc) ==
    /\ chat_pc' = "raised"
    /\ chat_outcome' = exc

\* ------------------------------------------------------------------------
\* SpecChat: one call of chat() by the worker thread
\* ------------------------------------------------------------------------
\* Model identifiers the caller passes.
ChatModels ==
    { "claude-opus-4-5", "Claude-Sonnet-4", "gemini-3-pro-preview",
      "GEMINI-via-claude", "gpt-4.1" }

ChatUniverse ==
    { Msg("system", Str("Be brief")),
      Msg("system", Str("You are a careful assistant. Answer in one short "
                            \o "paragraph and cite the file you used.")),
      Msg("user", Str("old?")),
      Msg("assistant", Str("answer!")),
      Msg("user", Parts(<<TextPart("see"), ImagePart("data:image/png;base64,abc")>>)) }

TinyLimits ==
    ModelLimitsOf(JObj([max_context_window_tokens |-> JNum(64),
                        max_prompt_tokens |-> JNum(20),
                        max_output_tokens |-> JNum(4096)]))

\* self._model_limits when chat() is called: nothing fetched yet, or the
\* limits of three of the models
ChatCaches ==
    { <<>>,
      [id \in {"claude-opus-4-5", "gemini-3-pro-preview", "gpt-4.1"} |-> TinyLimits] }

chatLocals == <<chat_limits, trimmed, formatted, chat_system_text, payload, posted,
                chat_response>>
chatArgs == <<chat_messages, chat_model, chat_stream, pre_assembled>>

InitChat ==
    /\ chat_messages = <<>>
    /\ chat_model \in ChatModels
    /\ chat_stream \in BOOLEAN
    /\ pre_assembled \in BOOLEAN
    /\ chat_pc = "input"
    /\ chat_limits = {}
    /\ trimmed = <<>>
    /\ formatted = <<>>
    /\ chat_system_text = {}
    /\ payload = <<>>
    /\ posted = <<>>
    /\ chat_response = [kind |-> "none"]
    /\ chat_outcome = [kind |-> "none"]
    /\ steps = <<>>
    \* the client has no token yet, or holds one still valid
    /\ \/ copilot_token = "" /\ token_expires_at = 0 /\ issued = <<>>
          /\ requests_sent = 0
       \/ \E expires \in Lifetimes :
             /\ copilot_token = TokenName(1)
             /\ token_expires_at = expires
             /\ issued = << <<TokenName(1), expires>> >>
             /\ requests_sent = 1
    /\ clock = 0
    /\ pc = <<>>
    /\ now = <<>>
    /\ expires_seen = <<>>
    /\ response = <<>>
    /\ fetched = <<>>
    /\ outcome = <<>>
    /\ bearer = <<>>
    /\ model_limits \in ChatCaches
    /\ lim_pc = "idle"
    /\ models = JList(<<>>)
    /\ entry_idx = 0
    /\ lim = {}
    /\ pending = <<>>
    /\ fetch_failure = ""
    /\ lim_exc = ""
    /\ lim_returned = {}
    /\ cache_before = <<>>
    /\ refreshes = 0
    /\ lookup_seen = [id |-> "", limits |-> {}]
    /\ CtxIdle
    /\ FmtIdle
    /\ SseIdle
    /\ PollIdle
    /\ StoreIdle
    /\ PmIdle
    /\ UiIdle

\* The caller assembles the conversation it will pass.
ChatAddMessage(m) ==
    /\ chat_pc = "input"
    /\ Len(chat_messages) < MaxTurns
    /\ chat_messages' = Append(chat_messages, m)
    /\ UNCHANGED <<chat_model, chat_stream, pre_assembled, chat_pc, chatLocals,
                   chat_outcome, steps>>
    /\ UNCHANGED <<tokVars, outsideChat>>

\* chat(messages, model, stream, pre_assembled=...) is entered
ChatCall ==
    /\ chat_pc = "input"
    /\ chat_pc' = "token"
    /\ steps' = Append(steps, "ensureValid")
    /\ UNCHANGED <<chatArgs, chatLocals, chat_outcome>>
    /\ UNCHANGED <<tokVars, outsideChat>>

\* self._ensure_token(): the token is still valid
ChatTokenValid ==
    /\ chat_pc = "token"
    /\ ~NeedsRefresh(clock, token_expires_at)
    /\ chat_pc' = "trim"
    /\ UNCHANGED <<chatArgs, chatLocals, chat_outcome, steps>>
    /\ UNCHANGED <<tokVars, outsideChat>>

\* self._ensure_token(): the exchange succeeds and the pair is stored
ChatTokenExchange(expires) ==
    /\ chat_pc = "token"
    /\ NeedsRefresh(clock, token_expires_at)
    /\ copilot_token' = TokenName(Len(issued) + 1)
    /\ token_expires_at' = expires
    /\ issued' = Append(issued, <<TokenName(Len(issued) + 1), expires>>)
    /\ requests_sent' = requests_sent + 1
    /\ chat_pc' = "trim"
    /\ UNCHANGED <<chatArgs, chatLocals, chat_outcome, steps>>
    /\ UNCHANGED <<tokLocals, outsideChat>>

\* self._ensure_token() raises the CopilotAPIError of the failed exchange
ChatTokenFails(status) ==
    /\ chat_pc = "token"
    /\ NeedsRefresh(clock, token_expires_at)
    /\ requests_sent' = requests_sent + 1
    /\ FailureKeepsCredential
    /\ ChatRaise([kind |-> "raised", exc |-> "CopilotAPIError",
                  auth |-> AuthErrorForStatus(status, EmptyBody)])
    /\ UNCHANGED <<chatArgs, chatLocals, steps>>
    /\ UNCHANGED <<issued, tokLocals, outsideChat>>

\* if pre_assembled: trimmed = messages; limits = self.get_model_limits(model)
ChatSkipTrim ==
    /\ chat_pc = "trim"
    /\ pre_assembled
    /\ trimmed' = chat_messages
    /\ chat_limits' = GetModelLimits(model_limits, chat_model)
    /\ chat_pc' = "format"
    /\ UNCHANGED <<chatArgs, formatted, chat_system_text, payload, posted,
                   chat_response, chat_outcome, steps>>
    /\ UNCHANGED <<tokVars, outsideChat>>

\* else: limits = ...; trimmed = build_context_window(messages, ...)
ChatTrim ==
    /\ chat_pc = "trim"
    /\ ~pre_assembled
    /\ LET limits == GetModelLimits(model_limits, chat_model) IN
        /\ ~TrimRaises(chat_messages, TrimBudget(limits), enc)
        /\ chat_limits' = limits
        /\ trimmed' = TrimResult(chat_messages, TrimBudget(limits), enc)
    /\ steps' = Append(steps, "trim")
    /\ chat_pc' = "format"
    /\ UNCHANGED <<chatArgs, formatted, chat_system_text, payload, posted,
                   chat_response, chat_outcome>>
    /\ UNCHANGED <<tokVars, outsideChat>>

\* build_context_window raises ValueError, which chat() does not catch
ChatTrimRaises ==
    /\ chat_pc = "trim"
    /\ ~pre_assembled
    /\ LET limits == GetModelLimits(model_limits, chat_model) IN
        /\ TrimRaises(chat_messages, TrimBudget(limits), enc)
        /\ chat_limits' = limits
        /\ ChatRaise([kind |-> "raised", exc |-> "ValueError",
                      error |-> BudgetError(chat_messages, TrimBudget(limits)[1],
                                            TrimBudget(limits)[2], enc)])
    /\ steps' = Append(steps, "trim")
    /\ UNCHANGED <<chatArgs, trimmed, formatted, chat_system_text, payload, posted,
                   chat_response>>
    /\ UNCHANGED <<tokVars, outsideChat>>

\* formatted[, system_text] = _format_messages_<family>(trimmed)
ChatFormat ==
    /\ chat_pc = "format"
    /\ LET family == GetModelFamily(chat_model) IN
        /\ formatted' =
              IF family = "claude" THEN FormatMessagesClaude(trimmed).body
              ELSE IF family = "gemini" THEN FormatMessagesGemini(trimmed)
              ELSE FormatMessagesOpenai(trimmed)
        /\ chat_system_text' =
              IF family = "claude" THEN FormatMessagesClaude(trimmed).system_text
              ELSE chat_system_text
    /\ steps' = Append(steps, "format")
    /\ chat_pc' = "payload"
    /\ UNCHANGED <<chatArgs, chat_limits, trimmed, payload, posted, chat_response,
                   chat_outcome>>
    /\ UNCHANGED <<tokVars, outsideChat>>

\* payload = _build_payload_<family>(formatted, model, stream, ...)
ChatBuildPayload ==
    /\ chat_pc = "payload"
    /\ LET family == GetModelFamily(chat_model) IN
        payload' =
            IF family = "claude"
            THEN BuildPayloadClaude(formatted, chat_model, chat_stream,
                                    chat_system_text, MaxOut(chat_limits))
            ELSE IF family = "gemini"
            THEN BuildPayloadGemini(formatted, chat_model, chat_stream)
            ELSE BuildPayloadOpenai(formatted, chat_model, chat_stream)
    /\ steps' = Append(steps, "payload")
    /\ chat_pc' = "post"
    /\ UNCHANGED <<chatArgs, chat_limits, trimmed, formatted, chat_system_text,
                   posted, chat_response, chat_outcome>>
    /\ UNCHANGED <<tokVars, outsideChat>>

\* The call of requests.post as the network sees it.
PostOf(family) ==
    [url |-> EndpointOf(family),
     authorization |-> "Bearer " \o copilot_token,
     json |-> payload,
     stream |-> chat_stream]

\* response = requests.post(url, headers=headers, json=payload, ...)
ChatPost(resp) ==
    /\ chat_pc = "post"
    /\ posted' = Append(posted, PostOf(GetModelFamily(chat_model)))
    /\ chat_response' = resp
    /\ steps' = Append(steps, "POST")
    /\ chat_pc' = "status"
    /\ UNCHANGED <<chatArgs, chat_limits, trimmed, formatted, chat_system_text,
                   payload, chat_outcome>>
    /\ UNCHANGED <<tokVars, outsideChat>>

\* requests.post raises (no connection, timeout); chat() does not catch it
ChatPostFails ==
    /\ chat_pc = "post"
    /\ posted' = Append(posted, PostOf(GetModelFamily(chat_model)))
    /\ steps' = Append(steps, "POST")
    /\ ChatRaise(Uncaught("ConnectionError"))
    /\ UNCHANGED <<chatArgs, chat_limits, trimmed, formatted, chat_system_text,
                   payload, chat_response>>
    /\ UNCHANGED <<tokVars, outsideChat>>

\* if not response.ok: raise CopilotAPIError(..., payload_summary=...)
ChatHttpError ==
    /\ chat_pc = "status"
    /\ ~Ok(chat_response)
    /\ ChatRaise(ApiError(chat_response, EndpointOf(GetModelFamily(chat_model)),
                          chat_model, {SummarisePayload(payload)}))
    /\ UNCHANGED <<chatArgs, chatLocals, steps>>
    /\ UNCHANGED <<tokVars, outsideChat>>

\* if stream: return self._parse_claude_sse(response) / self._parse_sse(response)
ChatReturnStream ==
    /\ chat_pc = "status"
    /\ Ok(chat_response)
    /\ chat_stream
    /\ chat_outcome' =
          ChatReturned([t |-> "generator"],
                       IF GetModelFamily(chat_model) = "claude" THEN "claude"
                       ELSE "generic")
    /\ steps' = Append(steps, "decode")
    /\ chat_pc' = "returned"
    /\ UNCHANGED <<chatArgs, chatLocals>>
    /\ UNCHANGED <<tokVars, outsideChat>>

\* What the non-streaming branch of the family makes of the response.
Decoded ==
    IF GetModelFamily(chat_model) = "claude"
    THEN DecodeClaude(chat_response, EndpointOf("claude"), chat_model)
    ELSE DecodeGeneric(chat_response, EndpointOf(GetModelFamily(chat_model)),
                       chat_model)

\* The non-streaming branch returns the text.
ChatDecodeReturns ==
    /\ chat_pc = "status"
    /\ Ok(chat_response)
    /\ ~chat_stream
    /\ Decoded.kind = "returned"
    /\ chat_outcome' = Decoded
    /\ steps' = Append(steps, "decode")
    /\ chat_pc' = "returned"
    /\ UNCHANGED <<chatArgs, chatLocals>>
    /\ UNCHANGED <<tokVars, outsideChat>>

\* The non-streaming branch raises.
ChatDecodeRaises ==
    /\ chat_pc = "status"
    /\ Ok(chat_response)
    /\ ~chat_stream
    /\ Decoded.kind = "raised"
    /\ ChatRaise(Decoded)
    /\ steps' = Append(steps, "decode")
    /\ UNCHANGED <<chatArgs, chatLocals>>
    /\ UNCHANGED <<tokVars, outsideChat>>

NextChat ==
    \/ \E m \in ChatUniverse : ChatAddMessage(m)
    \/ ChatCall
    \/ ChatTokenValid
    \/ \E expires \in Lifetimes : ChatTokenExchange(expires)
    \/ \E status \in ErrorStatuses : ChatTokenFails(status)
    \/ ChatSkipTrim
    \/ ChatTrim
    \/ ChatTrimRaises
    \/ ChatFormat
    \/ ChatBuildPayload
    \/ \E resp \in ChatResponses(chat_stream) : ChatPost(resp)
    \/ ChatPostFails
    \/ ChatHttpError
    \/ ChatReturnStream
    \/ ChatDecodeReturns
    \/ ChatDecodeRaises

SpecChat == InitChat /\ [][NextChat]_vars

\* ------------------------------------------------------------------------
\* Properties of chat() (checked under SpecChat)
\* ------------------------------------------------------------------------
ChatRaised == chat_pc = "raised"
ChatEnded == chat_pc \in {"returned", "raised"}

\* chat() raised the CopilotAPIError of a refused request.
HttpErrorRaised ==
    /\ ChatRaised
    /\ "payload_summary" \in DOMAIN chat_outcome
    /\ chat_outcome.payload_summary # {}

\* Two parts, two contents, two conversations that differ at most in text.
SamePartButText(p, q) ==
    /\ p.type = q.type
    /\ p.type = "image_url" => p = q

SameContentButText(c, d) ==
    /\ c.kind = d.kind
    /\ c.kind = "list" =>
          /\ Len(c.parts) = Len(d.parts)
          /\ \A i \in 1..Len(c.parts) : SamePartButText(c.parts[i], d.parts[i])

SameButText(a, b) ==
    /\ Len(a) = Len(b)
    /\ \A i \in 1..Len(a) :
          /\ a[i].role = b[i].role
          /\ SameContentButText(a[i].content, b[i].content)

Conversations == UNION { [1..n -> ChatUniverse] : n \in 0..MaxTurns }

\* The request is sent for the conversation ms (it passes the trimming).
Sendable(ms) ==
    pre_assembled \/ ~TrimRaises(ms, TrimBudget(chat_limits), enc)

\* The summary a refused request for the conversation ms carries, the other
\* arguments and the client being those of the current call.
SummaryFor(ms) ==
    LET family == GetModelFamily(chat_model)
        kept == IF pre_assembled THEN ms
                ELSE TrimResult(ms, TrimBudget(chat_limits), enc)
    IN SummarisePayload(
          IF family = "claude"
          THEN BuildPayloadClaude(FormatMessagesClaude(kept).body, chat_model,
                                  chat_stream, FormatMessagesClaude(kept).system_text,
                                  MaxOut(chat_limits))
          ELSE IF family = "gemini"
          THEN BuildPayloadGemini(FormatMessagesGemini(kept), chat_model, chat_stream)
          ELSE BuildPayloadOpenai(FormatMessagesOpenai(kept), chat_model, chat_stream))

\* C21: the payload summary attached to the error of a refused request
\* holds no message content: a request that differs from the one made only
\* in the text of its messages, system messages included, carries the
\* identical summary.
C21_SummaryHidesText ==
    HttpErrorRaised =>
        \A other \in Conversations :
            SameButText(chat_messages, other) /\ Sendable(other) =>
                SummaryFor(other) = The(chat_outcome.payload_summary)

\* The stages of one call, in the order the specification gives them.
StageOrder(pre) ==
    IF pre THEN <<"ensureValid", "format", "payload", "POST", "decode">>
    ELSE <<"ensureValid", "trim", "format", "payload", "POST", "decode">>

IsPrefixOf(a, b) == Len(a) <= Len(b) /\ a = SubSeq(b, 1, Len(a))

Reached(stage) == \E i \in 1..Len(steps) : steps[i] = stage

AuthFailed == ChatRaised /\ "auth" \in DOMAIN chat_outcome
BudgetFailed == ChatRaised /\ chat_outcome.exc = "ValueError"

\* C22: the stages of a chat() call occur in the order ensureValid, trim
\* (left out when pre-assembled), format, payload, POST, decode; a POST is
\* sent only with the token ensureValid left valid, and none is sent when
\* ensureValid failed or the trimming raised the budget error.
C22_StagesInOrder ==
    /\ IsPrefixOf(steps, StageOrder(pre_assembled))
    /\ posted # <<>> =>
          /\ copilot_token # ""
          /\ clock < token_expires_at - 60
          /\ \A i \in 1..Len(posted) :
                posted[i].authorization = "Bearer " \o copilot_token
    /\ AuthFailed \/ BudgetFailed => posted = <<>>

\* A call that went through the six stages and returned.
C22_Witness ==
    /\ chat_pc = "returned"
    /\ ~pre_assembled
    /\ steps = <<"ensureValid", "trim", "format", "payload", "POST", "decode">>
    /\ Len(posted) = 1

Cached == chat_model \in DOMAIN model_limits

\* The budget the specification gives the trimming.
SpecBudget ==
    IF Cached THEN <<model_limits[chat_model].max_prompt_tokens.v, 0>>
    ELSE <<8192, 1024>>

FormatFor(ms) ==
    IF GetModelFamily(chat_model) = "claude" THEN FormatMessagesClaude(ms).body
    ELSE IF GetModelFamily(chat_model) = "gemini" THEN FormatMessagesGemini(ms)
    ELSE ms

\* C24: chat() trims with (maxPromptTokens, 0) when limits are cached for
\* the model and with (8192, 1024) when not; a pre-assembled call is not
\* trimmed, never fails with the budget error, and hands the formatter the
\* caller's list.
C24_TrimBudget ==
    /\ ~pre_assembled /\ Reached("format") =>
          trimmed = TrimResult(chat_messages, SpecBudget, enc)
    /\ ~pre_assembled /\ Reached("trim") =>
          (BudgetFailed <=> TrimRaises(chat_messages, SpecBudget, enc))
    /\ BudgetFailed =>
          chat_outcome.error =
              BudgetError(chat_messages, SpecBudget[1], SpecBudget[2], enc)
    /\ pre_assembled =>
          /\ ~Reached("trim")
          /\ ~BudgetFailed
          /\ Reached("format") =>
                trimmed = chat_messages /\ formatted = FormatFor(chat_messages)

\* Cached limits made the trimming drop a message the defaults would keep.
C24_Witness ==
    /\ ~pre_assembled
    /\ Cached
    /\ Reached("format")
    /\ Len(trimmed) < Len(chat_messages)
    /\ TrimResult(chat_messages, <<8192, 1024>>, enc) = chat_messages

\* The body of a 2xx non-streaming response has the fields of its family.
WellFormedBody(family, j) ==
    IF family = "claude"
    THEN /\ j.t = "obj"
         /\ "content" \in DOMAIN j.v
         /\ j.v.content.t = "list"
         /\ j.v.content.v # <<>>
    ELSE /\ j.t = "obj"
         /\ "choices" \in DOMAIN j.v
         /\ j.v.choices.t = "list"
         /\ j.v.choices.v # <<>>
         /\ j.v.choices.v[1].t = "obj"
         /\ "message" \in DOMAIN j.v.choices.v[1].v
         /\ j.v.choices.v[1].v.message.t = "obj"
         /\ "content" \in DOMAIN j.v.choices.v[1].v.message.v

\* chat() has handled a 2xx non-streaming response.
DecodedNonStreaming ==
    /\ ChatEnded
    /\ Reached("decode")
    /\ ~chat_stream

\* C25: for a 2xx non-streaming response whose body is not JSON or lacks
\* the fields of its family, chat() raises the malformed-response error
\* carrying status, endpoint and model, and returns no text.
C25_MalformedBodyRaises ==
    DecodedNonStreaming
        /\ ~WellFormedBody(GetModelFamily(chat_model), chat_response.json) =>
            /\ ChatRaised
            /\ chat_outcome.exc = "CopilotAPIError"
            /\ chat_outcome.status_code = {chat_response.status_code}
            /\ chat_outcome.endpoint = posted[1].url
            /\ chat_outcome.model = chat_model

\* The family the specification gives each identifier of ChatModels.
SpecFamily(id) ==
    CASE id = "claude-opus-4-5" -> "claude"
      [] id = "Claude-Sonnet-4" -> "claude"
      [] id = "GEMINI-via-claude" -> "claude"
      [] id = "gemini-3-pro-preview" -> "gemini"
      [] OTHER -> "openai"

\* C26: the family is claude when the identifier contains "claude" in any
\* letter case, else gemini when it contains "gemini", else openai; claude
\* requests go to the messages endpoint and are decoded by the Claude
\* decoder, the others go to chat-completions and the generic decoder.
C26_FamilyRouting ==
    /\ GetModelFamily(chat_model) = SpecFamily(chat_model)
    /\ \A i \in 1..Len(posted) :
          posted[i].url =
              IF SpecFamily(chat_model) = "claude"
              THEN "https://api.githubcopilot.com/v1/messages"
              ELSE "https://api.githubcopilot.com/chat/completions"
    /\ chat_pc = "returned" =>
          chat_outcome.decoder =
              IF SpecFamily(chat_model) = "claude" THEN "claude" ELSE "generic"

\* A Claude identifier in capitals was routed to the messages endpoint.
C26_Witness ==
    /\ chat_model = "Claude-Sonnet-4"
    /\ chat_pc = "returned"
    /\ posted[1].url = "https://api.githubcopilot.com/v1/messages"
    /\ chat_outcome.decoder = "claude"

IsImageNote(p) ==
    /\ p.type = "text"
    /\ Contains(p.text, "does not support inline images")

\* C27: the Gemini formatter keeps the number and order of the messages
\* and of the parts of every multipart message: an image part becomes one
\* text part saying inline images are unsupported; text parts, string
\* content and roles are unchanged.
C27_GeminiKeepsShape ==
    SpecFamily(chat_model) = "gemini" /\ Reached("format") =>
        /\ Len(formatted) = Len(trimmed)
        /\ \A i \in 1..Len(trimmed) :
              /\ formatted[i].role = trimmed[i].role
              /\ formatted[i].content.kind = trimmed[i].content.kind
              /\ trimmed[i].content.kind = "str" =>
                    formatted[i].content = trimmed[i].content
              /\ trimmed[i].content.kind = "list" =>
                    /\ Len(formatted[i].content.parts) = Len(trimmed[i].content.parts)
                    /\ \A k \in 1..Len(trimmed[i].content.parts) :
                          IF trimmed[i].content.parts[k].type = "text"
                          THEN formatted[i].content.parts[k]
                                   = trimmed[i].content.parts[k]
                          ELSE IsImageNote(formatted[i].content.parts[k])

\* A message with an image went through the Gemini formatter.
C27_Witness ==
    /\ SpecFamily(chat_model) = "gemini"
    /\ Reached("format")
    /\ \E i \in 1..Len(trimmed) :
          /\ trimmed[i].content.kind = "list"
          /\ \E k \in 1..Len(trimmed[i].content.parts) :
                /\ trimmed[i].content.parts[k].type = "image_url"
                /\ IsImageNote(formatted[i].content.parts[k])

HasSystemText == chat_system_text # {} /\ chat_system_text # {""}

\* C28: the keys of a Claude payload are model, messages, max_tokens,
\* stream and temperature, with system exactly when the extracted system
\* string is not empty; n and top_p are never among them; max_tokens is
\* the cached output limit, or 16000 when none is cached.
C28_ClaudePayloadKeys ==
    SpecFamily(chat_model) = "claude" /\ Reached("payload") =>
        /\ DOMAIN payload =
              {"model", "messages", "max_tokens", "stream", "temperature"}
                  \cup (IF HasSystemText THEN {"system"} ELSE {})
        /\ "n" \notin DOMAIN payload
        /\ "top_p" \notin DOMAIN payload
        /\ HasSystemText => payload.system = The(chat_system_text)
        /\ payload.max_tokens =
              IF Cached THEN model_limits[chat_model].max_output_tokens
              ELSE [t |-> "num", v |-> 16000]

\* A Claude payload with a system key and the cached output limit.
C28_Witness ==
    /\ SpecFamily(chat_model) = "claude"
    /\ Reached("payload")
    /\ "system" \in DOMAIN payload
    /\ payload.max_tokens = [t |-> "num", v |-> 4096]
    /\ formatted # <<>>

\* ------------------------------------------------------------------------
\* Device-flow polling: auth.poll_for_token
\* ------------------------------------------------------------------------
\* Token requests one call may send.
MaxPolls == 3

SLOW_DOWN_STEP == 5

\* response.json() of the token endpoint: an object with some of the keys
\* access_token, error and error_description (absent keys are empty sets),
\* or a JSON value that is not an object.
PollDict(token, err, description) ==
    [kind |-> "dict", access_token |-> token, error |-> err,
     error_description |-> description]

PollBodies ==
    { PollDict({"gho_abc"}, {}, {}),
      PollDict({"gho_abc"}, {"slow_down"}, {}),
      PollDict({}, {"authorization_pending"}, {}),
      PollDict({}, {"slow_down"}, {}),
      PollDict({}, {"expired_token"}, {"The device code expired"}),
      PollDict({}, {"access_denied"}, {}),
      PollDict({}, {"incorrect_device_code"}, {"Bad code"}),
      PollDict({}, {"unsupported_grant_type"}, {}),
      PollDict({}, {"unsupported_grant_type"}, {""}),
      PollDict({}, {}, {}),
      [kind |-> "list"] }

\* The intervals the caller passes: GitHub's value or the default.
StartIntervals == {1, 5}

\* data.get(key, default) on the object
PollGet(d, key, default) == IF d[key] = {} THEN default ELSE The(d[key])

\* x or y on strings
OrElse(x, y) == IF x # "" THEN x ELSE y

\* Faulty variant: slow_down leaves the interval as it was.
PollHandle_NoBackoff(d, secs) ==
    IF d.kind # "dict"
    THEN [next |-> "raise", type |-> "AttributeError", value |-> "", interval |-> secs]
    ELSE IF d.access_token # {}
    THEN [next |-> "return", type |-> "", value |-> The(d.access_token), interval |-> secs]
    ELSE LET err == PollGet(d, "error", "")
         IN IF err = "authorization_pending" \/ err = "slow_down"
            THEN [next |-> "continue", type |-> "", value |-> "", interval |-> secs]
            ELSE IF err = "expired_token"
            THEN [next |-> "raise", type |-> "RuntimeError",
                  value |-> "Device code has expired. Please restart authentication.",
                  interval |-> secs]
            ELSE IF err = "access_denied"
            THEN [next |-> "raise", type |-> "RuntimeError",
                  value |-> "Authorisation denied by user.", interval |-> secs]
            ELSE [next |-> "raise", type |-> "RuntimeError",
                  value |-> OrElse(PollGet(d, "error_description", err), "Unknown error"),
                  interval |-> secs]

\* The body of the loop after data = response.json(): what the call does
\* next and the interval it goes on with.
PollHandle(d, secs) ==
    IF d.kind # "dict"
    THEN [next |-> "raise", type |-> "AttributeError", value |-> "", interval |-> secs]
    ELSE IF d.access_token # {}
    THEN [next |-> "return", type |-> "", value |-> The(d.access_token), interval |-> secs]
    ELSE LET err == PollGet(d, "error", "")
         IN IF err = "authorization_pending"
            THEN [next |-> "continue", type |-> "", value |-> "", interval |-> secs]
            ELSE IF err = "slow_down"
            THEN [next |-> "continue", type |-> "", value |-> "",
                  interval |-> secs + SLOW_DOWN_STEP]
            ELSE IF err = "expired_token"
            THEN [next |-> "raise", type |-> "RuntimeError",
                  value |-> "Device code has expired. Please restart authentication.",
                  interval |-> secs]
            ELSE IF err = "access_denied"
            THEN [next |-> "raise", type |-> "RuntimeError",
                  value |-> "Authorisation denied by user.", interval |-> secs]
            ELSE [next |-> "raise", type |-> "RuntimeError",
                  value |-> OrElse(PollGet(d, "error_description", err), "Unknown error"),
                  interval |-> secs]

\* ------------------------------------------------------------------------
\* SpecPoll: one call of poll_for_token while the caller may cancel
\* ------------------------------------------------------------------------
InitPoll ==
    /\ has_callback \in BOOLEAN
    /\ cancelled = FALSE
    /\ poll_interval \in StartIntervals
    /\ poll_pc = "check_before_sleep"
    /\ poll_data = [kind |-> "none"]
    /\ poll_outcome = [kind |-> "none"]
    /\ poll_requests = 0
    /\ poll_sleeps = <<>>
    /\ cancel_observed = FALSE
    /\ CtxIdle
    /\ CtxTokIdle
    /\ FmtIdle
    /\ SseIdle
    /\ LimIdle
    /\ ChatIdle
    /\ UiIdle
    /\ PmIdle
    /\ StoreIdle

PollRunning == poll_pc \in {"check_before_sleep", "sleep", "check_after_sleep", "post"}

\* AuthDialog._cancel on the UI thread: self._cancelled = True
UserCancels ==
    /\ PollRunning
    /\ ~cancelled
    /\ cancelled' = TRUE
    /\ UNCHANGED <<has_callback, poll_interval, poll_pc, poll_data, poll_outcome,
                   poll_requests, poll_sleeps, cancel_observed>>
    /\ UNCHANGED outsidePoll

\* if is_cancelled and is_cancelled(): return None   (either of the two)
PollCancelCheck(here, next) ==
    /\ poll_pc = here
    /\ IF has_callback /\ cancelled
       THEN /\ poll_pc' = "returned"
            /\ poll_outcome' = [kind |-> "returned", value |-> {}]
            /\ cancel_observed' = TRUE
       ELSE /\ poll_pc' = next
            /\ UNCHANGED <<poll_outcome, cancel_observed>>
    /\ UNCHANGED <<has_callback, cancelled, poll_interval, poll_data,
                   poll_requests, poll_sleeps>>
    /\ UNCHANGED outsidePoll

PollCheckBeforeSleep == PollCancelCheck("check_before_sleep", "sleep")

\* time.sleep(interval)
PollSleep ==
    /\ poll_pc = "sleep"
    /\ poll_sleeps' = Append(poll_sleeps, poll_interval)
    /\ poll_pc' = "check_after_sleep"
    /\ UNCHANGED <<has_callback, cancelled, poll_interval, poll_data, poll_outcome,
                   poll_requests, cancel_observed>>
    /\ UNCHANGED outsidePoll

PollCheckAfterSleep == PollCancelCheck("check_after_sleep", "post")

\* requests.post(...) raises (connection error, timeout): the exception
\* leaves poll_for_token
PollPostFails ==
    /\ poll_pc = "post"
    /\ poll_requests < MaxPolls
    /\ poll_requests' = poll_requests + 1
    /\ poll_data' = [kind |-> "none"]
    /\ poll_pc' = "raised"
    /\ poll_outcome' = [kind |-> "raised", type |-> "RequestException", value |-> ""]
    /\ UNCHANGED <<has_callback, cancelled, poll_interval, poll_sleeps, cancel_observed>>
    /\ UNCHANGED outsidePoll

\* the response arrives but response.json() raises on its body
PollJsonFails ==
    /\ poll_pc = "post"
    /\ poll_requests < MaxPolls
    /\ poll_requests' = poll_requests + 1
    /\ poll_data' = [kind |-> "invalid"]
    /\ poll_pc' = "raised"
    /\ poll_outcome' = [kind |-> "raised", type |-> "JSONDecodeError", value |-> ""]
    /\ UNCHANGED <<has_callback, cancelled, poll_interval, poll_sleeps, cancel_observed>>
    /\ UNCHANGED outsidePoll

\* the response arrives and the rest of the loop body handles its data
PollRequest(d) ==
    /\ poll_pc = "post"
    /\ poll_requests < MaxPolls
    /\ poll_requests' = poll_requests + 1
    /\ poll_data' = d
    /\ LET h == PollHandle(d, poll_interval)
       IN /\ poll_interval' = h.interval
          /\ IF h.next = "continue"
             THEN poll_pc' = "check_before_sleep" /\ UNCHANGED poll_outcome
             ELSE IF h.next = "return"
             THEN /\ poll_pc' = "returned"
                  /\ poll_outcome' = [kind |-> "returned", value |-> {h.value}]
             ELSE /\ poll_pc' = "raised"
                  /\ poll_outcome' = [kind |-> "raised", type |-> h.type,
                                      value |-> h.value]
    /\ UNCHANGED <<has_callback, cancelled, poll_sleeps, cancel_observed>>
    /\ UNCHANGED outsidePoll

PollContinues == \E d \in PollBodies : PollHandle(d, 0).next = "continue" /\ PollRequest(d)
PollReturnsToken == \E d \in PollBodies : PollHandle(d, 0).next = "return" /\ PollRequest(d)
PollRaises == \E d \in PollBodies : PollHandle(d, 0).next = "raise" /\ PollRequest(d)

NextPoll ==
    \/ UserCancels
    \/ PollCheckBeforeSleep
    \/ PollSleep
    \/ PollCheckAfterSleep
    \/ PollPostFails
    \/ PollJsonFails
    \/ PollContinues
    \/ PollReturnsToken
    \/ PollRaises

SpecPoll == InitPoll /\ [][NextPoll]_vars

\* ------------------------------------------------------------------------
\* Claims about poll_for_token
\* ------------------------------------------------------------------------
PollEnded == poll_pc \in {"returned", "raised"}

\* A step in which the call leaves its loop.
PollLeaves == PollRunning /\ PollEnded'

\* A step in which a token request is answered with an object.
PollAnswered ==
    /\ poll_requests' = poll_requests + 1
    /\ poll_data'.kind = "dict"

PollErrorOf(d) == IF d.error = {} THEN "" ELSE CHOOSE e \in d.error : TRUE

\* The three ways of leaving the loop.
LeavesWithToken ==
    /\ PollAnswered
    /\ poll_data'.access_token # {}
    /\ poll_outcome' = [kind |-> "returned", value |-> poll_data'.access_token]

LeavesCancelled ==
    /\ has_callback /\ cancelled
    /\ cancel_observed'
    /\ poll_requests' = poll_requests
    /\ poll_outcome' = [kind |-> "returned", value |-> {}]

LeavesOnError ==
    /\ PollAnswered
    /\ poll_data'.access_token = {}
    /\ PollErrorOf(poll_data') \notin {"authorization_pending", "slow_down"}
    /\ poll_outcome'.kind = "raised"
    /\ poll_outcome'.type = "RuntimeError"

\* An exception of the request itself or of reading its response.
LeavesOnTransportFailure ==
    /\ poll_requests' = poll_requests + 1
    /\ poll_data'.kind # "dict"
    /\ poll_outcome'.kind = "raised"
    /\ poll_outcome'.type # "RuntimeError"

\* A response with a token ends the call, whatever else it carries.
FirstTokenReturned ==
    (PollAnswered /\ poll_data'.access_token # {}) => LeavesWithToken

NoRequestAfterCancel == cancel_observed => poll_requests' = poll_requests

PendingContinues ==
    (PollAnswered /\ poll_data'.access_token = {}
        /\ PollErrorOf(poll_data') = "authorization_pending")
    => (poll_pc' = "check_before_sleep" /\ poll_interval' = poll_interval)

SlowDownContinues ==
    (PollAnswered /\ poll_data'.access_token = {}
        /\ PollErrorOf(poll_data') = "slow_down")
    => (poll_pc' = "check_before_sleep" /\ poll_interval' = poll_interval + 5)

\* C35 (as stated): poll_for_token leaves its loop only by returning the
\* access token of the first response that has one, by returning None
\* once is_cancelled evaluates true, or by raising on expired_token,
\* access_denied or an unknown error; after is_cancelled has been observed
\* true no further token request is sent; authorization_pending and
\* slow_down (which adds 5 seconds to the interval) only continue the loop.
C35_LeavesOnlyAsListed ==
    [][ /\ PollLeaves => (LeavesWithToken \/ LeavesCancelled \/ LeavesOnError)
        /\ FirstTokenReturned
        /\ NoRequestAfterCancel
        /\ PendingContinues
        /\ SlowDownContinues ]_vars

\* C35 (amended): as stated, with one more way of leaving the loop: an
\* exception raised by the token request or by reading its response
\* propagates to the caller.
C35_LeavesAsListedOrOnFailure ==
    [][ /\ PollLeaves => (LeavesWithToken \/ LeavesCancelled \/ LeavesOnError
                            \/ LeavesOnTransportFailure)
        /\ FirstTokenReturned
        /\ NoRequestAfterCancel
        /\ PendingContinues
        /\ SlowDownContinues ]_vars

\* C35 witness: after authorization_pending and slow_down the third
\* response carries the token, which is returned; the sleeps were 5, 5, 10.
C35_Witness ==
    /\ poll_pc = "returned"
    /\ poll_outcome = [kind |-> "returned", value |-> {"gho_abc"}]
    /\ poll_requests = 3
    /\ poll_sleeps = <<5, 5, 10>>
    /\ ~cancel_observed

\* ------------------------------------------------------------------------
\* Conversation store: chat_store.ChatStore
\* ------------------------------------------------------------------------
\* Conversations created over the life of one database file.
MaxConvs == 4

\* Conversation ids are fresh (uuid4): the n-th one is n.
ConvIds == 1..MaxConvs

Exists(convs, cid) == \E i \in 1..Len(convs) : convs[i] = cid

Without(convs, cid) == SelectSeq(convs, LAMBDA c : c # cid)

\* _load_active_id: the meta row, dropped when it names no conversation
LoadActiveId(meta, convs) ==
    IF meta # {} /\ Exists(convs, The(meta)) THEN meta ELSE {}

\* ------------------------------------------------------------------------
\* SpecStore: one database file, opened, used, closed and reopened
\* ------------------------------------------------------------------------
InitStore ==
    /\ db_conversations = <<>>
    /\ db_meta_active = {}
    /\ store_open = FALSE
    /\ store_active_id = {}
    /\ ids_issued = 0
    /\ store_last = [op |-> "none", cid |-> 0, before |-> {}]
    /\ CtxIdle
    /\ CtxTokIdle
    /\ FmtIdle
    /\ SseIdle
    /\ LimIdle
    /\ ChatIdle
    /\ UiIdle
    /\ PmIdle
    /\ PollIdle

\* ChatStore.__init__ on a file that holds conversations
StoreOpenExisting ==
    /\ ~store_open
    /\ db_conversations # <<>>
    /\ store_open' = TRUE
    /\ store_active_id' = LoadActiveId(db_meta_active, db_conversations)
    /\ store_last' = [op |-> "init", cid |-> 0, before |-> {}]
    /\ UNCHANGED <<db_conversations, db_meta_active, ids_issued>>
    /\ UNCHANGED outsideStore

\* ChatStore.__init__ on a file without conversations: one is created
StoreOpenEmpty ==
    /\ ~store_open
    /\ db_conversations = <<>>
    /\ ids_issued < MaxConvs
    /\ store_open' = TRUE
    /\ ids_issued' = ids_issued + 1
    /\ db_conversations' = <<ids_issued + 1>>
    /\ store_active_id' = {ids_issued + 1}
    /\ db_meta_active' = {ids_issued + 1}
    /\ store_last' = [op |-> "init", cid |-> 0, before |-> {}]
    /\ UNCHANGED outsideStore

\* new_conversation: insert, make active, persist
NewConversation ==
    /\ store_open
    /\ ids_issued < MaxConvs
    /\ ids_issued' = ids_issued + 1
    /\ db_conversations' = <<ids_issued + 1>> \o db_conversations
    /\ store_active_id' = {ids_issued + 1}
    /\ db_meta_active' = {ids_issued + 1}
    /\ store_last' = [op |-> "new", cid |-> ids_issued + 1, before |-> store_active_id]
    /\ UNCHANGED store_open
    /\ UNCHANGED outsideStore

\* delete_conversation(cid) with conversations left afterwards
DeleteKeepsOthers(cid) ==
    /\ store_open
    /\ Without(db_conversations, cid) # <<>>
    /\ db_conversations' = Without(db_conversations, cid)
    /\ LET cleared == IF store_active_id = {cid} THEN {} ELSE store_active_id
       IN store_active_id' = IF cleared = {} THEN {db_conversations'[1]} ELSE cleared
    /\ db_meta_active' = store_active_id'
    /\ store_last' = [op |-> "delete", cid |-> cid, before |-> store_active_id]
    /\ UNCHANGED <<store_open, ids_issued>>
    /\ UNCHANGED outsideStore

\* delete_conversation(cid) of the last conversation: a new one is created
DeleteLast(cid) ==
    /\ store_open
    /\ Without(db_conversations, cid) = <<>>
    /\ ids_issued < MaxConvs
    /\ ids_issued' = ids_issued + 1
    /\ db_conversations' = <<ids_issued + 1>>
    /\ store_active_id' = {ids_issued + 1}
    /\ db_meta_active' = {ids_issued + 1}
    /\ store_last' = [op |-> "delete", cid |-> cid, before |-> store_active_id]
    /\ UNCHANGED store_open
    /\ UNCHANGED outsideStore

\* the active_id setter
SetActiveId(cid) ==
    /\ store_open
    /\ IF Exists(db_conversations, cid)
       THEN store_active_id' = {cid} /\ db_meta_active' = {cid}
       ELSE UNCHANGED <<store_active_id, db_meta_active>>
    /\ store_last' = [op |-> "set_active", cid |-> cid, before |-> store_active_id]
    /\ UNCHANGED <<db_conversations, store_open, ids_issued>>
    /\ UNCHANGED outsideStore

\* touch(cid): the conversation becomes the most recently updated
Touch(cid) ==
    /\ store_open
    /\ Exists(db_conversations, cid)
    /\ db_conversations[1] # cid
    /\ db_conversations' = <<cid>> \o Without(db_conversations, cid)
    /\ store_last' = [op |-> "touch", cid |-> cid, before |-> store_active_id]
    /\ UNCHANGED <<db_meta_active, store_open, store_active_id, ids_issued>>
    /\ UNCHANGED outsideStore

\* close(), or the end of the process: the file keeps what was committed
StoreClose ==
    /\ store_open
    /\ store_open' = FALSE
    /\ store_active_id' = {}
    /\ store_last' = [op |-> "close", cid |-> 0, before |-> store_active_id]
    /\ UNCHANGED <<db_conversations, db_meta_active, ids_issued>>
    /\ UNCHANGED outsideStore

\* The process ends inside delete_conversation(cid), after the commit of the
\* DELETE and before _persist_active_id: the row is gone, the meta row is
\* as it was.
KilledInDelete(cid) ==
    /\ store_open
    /\ Exists(db_conversations, cid)
    /\ db_conversations' = Without(db_conversations, cid)
    /\ store_open' = FALSE
    /\ store_active_id' = {}
    /\ store_last' = [op |-> "killed", cid |-> cid, before |-> store_active_id]
    /\ UNCHANGED <<db_meta_active, ids_issued>>
    /\ UNCHANGED outsideStore

NextStore ==
    \/ StoreOpenExisting
    \/ StoreOpenEmpty
    \/ NewConversation
    \/ \E cid \in ConvIds : DeleteKeepsOthers(cid)
    \/ \E cid \in ConvIds : DeleteLast(cid)
    \/ \E cid \in ConvIds : SetActiveId(cid)
    \/ \E cid \in ConvIds : Touch(cid)
    \/ StoreClose
    \/ \E cid \in ConvIds : KilledInDelete(cid)

SpecStore == InitStore /\ [][NextStore]_vars

\* ------------------------------------------------------------------------
\* Claims about the conversation store
\* ------------------------------------------------------------------------
StoredIds == {db_conversations[i] : i \in 1..Len(db_conversations)}

MaxOrder == 2

SLOT_CHAT_HISTORY == "{{CHAT_HISTORY}}"
SLOT_USER_INPUT == "{{USER_INPUT}}"
SLOTS == {SLOT_CHAT_HISTORY, SLOT_USER_INPUT}

\* Names the callers pass: two prompts, a name that is never stored, a slot.
PromptNames == {"a", "b"}
CallNames == PromptNames \cup {"zz", SLOT_USER_INPUT}

\* Names whose check box is toggled.
ToggledNames == {"a", "zz"}

\* Key lists of the files given to import_from.
ImportFiles == { <<>>, <<"a">>, <<"b", "a">>, <<"b", SLOT_USER_INPUT>> }

\* Lists given to reorder.
OrderLists ==
    UNION { [1..n -> PromptNames \cup SLOTS \cup {"zz"}] : n \in 0..MaxOrder }

Elems(s) == {s[i] : i \in 1..Len(s)}

\* [n for n in s if n in S]
Keep(s, S) == SelectSeq(s, LAMBDA n : n \in S)

\* for name in names: if name not in order: order.append(name)
RECURSIVE AppendMissing(_, _)
AppendMissing(order, names) ==
    IF names = <<>> THEN order
    ELSE AppendMissing(
            IF names[1] \in Elems(order) THEN order ELSE Append(order, names[1]),
            Tail(names))

\* list.index
FirstIndex(s, x) == CHOOSE i \in 1..Len(s) : s[i] = x /\ \A j \in 1..(i - 1) : s[j] # x

\* list.insert(idx, x), idx counted from 0
InsertAt(s, idx, x) == SubSeq(s, 1, idx) \o <<x>> \o SubSeq(s, idx + 1, Len(s))

\* list.remove(x): the first occurrence goes
RemoveFirst(s, x) ==
    LET i == FirstIndex(s, x) IN SubSeq(s, 1, i - 1) \o SubSeq(s, i + 1, Len(s))

\* _ensure_slots: the order it leaves
EnsureSlots(order) ==
    LET withHistory == IF SLOT_CHAT_HISTORY \in Elems(order) THEN order
                       ELSE <<SLOT_CHAT_HISTORY>> \o order
    IN IF SLOT_USER_INPUT \in Elems(withHistory) THEN withHistory
       ELSE Append(withHistory, SLOT_USER_INPUT)

\* _save_active writes {"order": self._order, "active": sorted(self._active)}
SavedActive(order, active) == {[order |-> order, active |-> active]}

\* reorder: the order it sets
Reordered(newOrder, stored) ==
    AppendMissing(AppendMissing(Keep(newOrder, Elems(stored) \cup SLOTS), stored),
                  <<SLOT_CHAT_HISTORY, SLOT_USER_INPUT>>)

\* import_from: the names kept from the file (slot names filtered out)
Incoming(raw) == Keep(raw, Elems(raw) \ SLOTS)

\* _load_active on the current-format file: the order and the active set
LoadedOrder(stored, saved) ==
    AppendMissing(Keep(saved.order, Elems(stored) \cup SLOTS), stored)

\* ------------------------------------------------------------------------
\* SpecPm: one prompt manager, its files, and restarts
\* ------------------------------------------------------------------------
\* PromptManager() with no file on disk: _ensure_slots adds both slots and
\* saves the active file
InitPm ==
    /\ pm_prompts = <<>>
    /\ pm_active = {}
    /\ pm_order = <<SLOT_CHAT_HISTORY, SLOT_USER_INPUT>>
    /\ file_prompts = <<>>
    /\ file_active = SavedActive(<<SLOT_CHAT_HISTORY, SLOT_USER_INPUT>>, {})
    /\ CtxIdle
    /\ CtxTokIdle
    /\ FmtIdle
    /\ SseIdle
    /\ LimIdle
    /\ ChatIdle
    /\ UiIdle
    /\ PollIdle
    /\ StoreIdle

\* add(name, content, role); a slot name is rejected
PmAdd(name) ==
    /\ IF name \in SLOTS
       THEN UNCHANGED <<pm_prompts, pm_order, file_prompts, file_active>>
       ELSE /\ pm_prompts' = IF name \in Elems(pm_prompts) THEN pm_prompts
                             ELSE Append(pm_prompts, name)
            /\ pm_order' =
                 IF name \in Elems(pm_prompts) THEN pm_order
                 ELSE IF SLOT_USER_INPUT \in Elems(pm_order)
                      THEN InsertAt(pm_order,
                                    FirstIndex(pm_order, SLOT_USER_INPUT) - 1, name)
                      ELSE Append(pm_order, name)
            /\ file_prompts' = pm_prompts'
            /\ file_active' = SavedActive(pm_order', pm_active)
    /\ UNCHANGED pm_active
    /\ UNCHANGED outsidePm

\* delete(name); nothing happens for a slot or a name that is not stored
PmDelete(name) ==
    /\ IF name \in SLOTS \/ name \notin Elems(pm_prompts)
       THEN UNCHANGED <<pm_prompts, pm_active, pm_order, file_prompts, file_active>>
       ELSE /\ pm_prompts' = Keep(pm_prompts, Elems(pm_prompts) \ {name})
            /\ pm_active' = pm_active \ {name}
            /\ pm_order' = IF name \in Elems(pm_order)
                           THEN RemoveFirst(pm_order, name)
                           ELSE pm_order
            /\ file_prompts' = pm_prompts'
            /\ file_active' = SavedActive(pm_order', pm_active')
    /\ UNCHANGED outsidePm

\* set_active(name, active)
PmSetActive(name, flag) ==
    /\ pm_active' = IF flag THEN pm_active \cup {name} ELSE pm_active \ {name}
    /\ file_active' = SavedActive(pm_order, pm_active')
    /\ UNCHANGED <<pm_prompts, pm_order, file_prompts>>
    /\ UNCHANGED outsidePm

\* reorder(new_order)
PmReorder(newOrder) ==
    /\ pm_order' = Reordered(newOrder, pm_prompts)
    /\ file_active' = SavedActive(pm_order', pm_active)
    /\ UNCHANGED <<pm_prompts, pm_active, file_prompts>>
    /\ UNCHANGED outsidePm

\* import_from(file_path, overwrite); _ensure_slots saves the active file
\* only when it added a slot
PmImport(raw, overwrite) ==
    LET incoming == Incoming(raw)
        order == IF overwrite THEN incoming
                 ELSE pm_order \o Keep(incoming, Elems(incoming) \ Elems(pm_prompts))
    IN /\ pm_prompts' = IF overwrite THEN incoming
                        ELSE AppendMissing(pm_prompts, incoming)
       /\ pm_order' = EnsureSlots(order)
       /\ file_prompts' = pm_prompts'
       /\ file_active' = IF pm_order' # order THEN SavedActive(pm_order', pm_active)
                         ELSE file_active
       /\ UNCHANGED pm_active
       /\ UNCHANGED outsidePm

\* The application is started again: PromptManager() on the two files
PmRestart ==
    /\ pm_prompts' = file_prompts
    /\ LET saved == The(file_active)
           order == LoadedOrder(file_prompts, saved)
       IN /\ pm_order' = EnsureSlots(order)
          /\ pm_active' = saved.active \cap Elems(file_prompts)
          /\ file_active' = IF pm_order' # order THEN SavedActive(pm_order', pm_active')
                            ELSE file_active
    /\ UNCHANGED file_prompts
    /\ UNCHANGED outsidePm

NextPm ==
    \/ \E name \in CallNames : PmAdd(name)
    \/ \E name \in CallNames : PmDelete(name)
    \/ \E name \in ToggledNames, flag \in BOOLEAN : PmSetActive(name, flag)
    \/ \E newOrder \in OrderLists : PmReorder(newOrder)
    \/ \E raw \in ImportFiles, overwrite \in BOOLEAN : PmImport(raw, overwrite)
    \/ PmRestart

SpecPm == InitPm /\ [][NextPm]_vars

\* ------------------------------------------------------------------------
\* Claims about the prompt manager
\* ------------------------------------------------------------------------
Occurrences(s, x) == Cardinality({i \in 1..Len(s) : s[i] = x})

\* C39: after construction and after any sequence of add, delete, reorder,
\* set_active and import_from, the display order contains each of the two
\* layout slots exactly once and each stored prompt name exactly once and
\* nothing else, and the active set contains only names of stored prompts.
C39_OrderAndActiveConsistent ==
    /\ Occurrences(pm_order, "{{CHAT_HISTORY}}") = 1
    /\ Occurrences(pm_order, "{{USER_INPUT}}") = 1
    /\ \A i \in 1..Len(pm_prompts) : Occurrences(pm_order, pm_prompts[i]) = 1
    /\ \A i \in 1..Len(pm_order) :
           \/ pm_order[i] \in {"{{CHAT_HISTORY}}", "{{USER_INPUT}}"}
           \/ \E j \in 1..Len(pm_prompts) : pm_prompts[j] = pm_order[i]
    /\ \A name \in pm_active : \E j \in 1..Len(pm_prompts) : pm_prompts[j] = name

\* ------------------------------------------------------------------------
\* Chat window: app.CopilotChatApp._send, _worker and _pump_queue
\* ------------------------------------------------------------------------
\* Requests sent in one run of the window, and fragments one reply streams.
MaxSends == 2
MaxFrags == 2

\* The i-th fragment client.chat yields for a reply.
Fragment(i) == IF i % 2 = 1 THEN "Hel" ELSE "lo"

\* An event on the queue; req names the worker that put it (the code's
\* tuples are (kind, payload) only).
Event(kind, text, req) == [kind |-> kind, payload |-> text, req |-> req]

\* A worker thread: where it is, the fragments it got, and its local full.
Worker(at, decoded, full) == [at |-> at, decoded |-> decoded, full |-> full]

\* Faulty variant: only a done event gives the controls back.
ControlsAfter_DoneOnly(kind, state) ==
    IF kind = "done" THEN "normal" ELSE state

\* _pump_queue: the state of the send controls after handling an event
ControlsAfter(kind, state) ==
    IF kind \in {"done", "error"} THEN "normal" ELSE state

\* ------------------------------------------------------------------------
\* SpecUi: the UI thread sends and pumps while worker threads stream
\* ------------------------------------------------------------------------
InitUi ==
    /\ send_controls = "normal"
    /\ ui_queue = <<>>
    /\ workers = <<>>
    /\ ui_put = <<>>
    /\ ui_processed = <<>>
    /\ CtxIdle
    /\ CtxTokIdle
    /\ FmtIdle
    /\ SseIdle
    /\ LimIdle
    /\ ChatIdle
    /\ PollIdle
    /\ StoreIdle
    /\ PmIdle

\* _send to the point where the worker thread is started: the controls
\* are disabled and a worker is created
StartWorker ==
    /\ Len(workers) < MaxSends
    /\ send_controls' = "disabled"
    /\ workers' = Append(workers, Worker("start", <<>>, ""))
    /\ UNCHANGED <<ui_queue, ui_put, ui_processed>>
    /\ UNCHANGED outsideUi

\* The Send button is clicked; a disabled button does not call _send.
SendClicked ==
    /\ send_controls = "normal"
    /\ StartWorker

\* <Return> in the input box: _on_enter_key calls _send whatever the state
\* of the button (with the button enabled the step is that of SendClicked)
SendByEnter ==
    /\ send_controls = "disabled"
    /\ StartWorker

\* _send when build_messages_from_layout raises ValueError: the controls
\* are disabled, enabled again, and no worker is started (a step only when
\* the call came by <Return> with the controls disabled)
SendTooLarge ==
    /\ send_controls = "disabled"
    /\ send_controls' = "normal"
    /\ UNCHANGED <<ui_queue, workers, ui_put, ui_processed>>
    /\ UNCHANGED outsideUi

Enqueue(ev) ==
    /\ ui_queue' = Append(ui_queue, ev)
    /\ ui_put' = Append(ui_put, ev)

\* _worker: self._queue.put(("start", model_label))
WorkerStart(r) ==
    /\ r \in 1..Len(workers)
    /\ workers[r].at = "start"
    /\ workers' = [workers EXCEPT ![r].at = "stream"]
    /\ Enqueue(Event("start", "model", r))
    /\ UNCHANGED <<send_controls, ui_processed>>
    /\ UNCHANGED outsideUi

\* _worker: the generator yields a fragment; full += chunk; put chunk
WorkerChunk(r) ==
    /\ r \in 1..Len(workers)
    /\ workers[r].at = "stream"
    /\ Len(workers[r].decoded) < MaxFrags
    /\ LET chunk == Fragment(Len(workers[r].decoded) + 1)
       IN /\ workers' = [workers EXCEPT ![r] =
                           Worker("stream", Append(@.decoded, chunk), @.full \o chunk)]
          /\ Enqueue(Event("chunk", chunk, r))
    /\ UNCHANGED <<send_controls, ui_processed>>
    /\ UNCHANGED outsideUi

\* _worker: the generator is exhausted; put ("done", full)
WorkerDone(r) ==
    /\ r \in 1..Len(workers)
    /\ workers[r].at = "stream"
    /\ workers' = [workers EXCEPT ![r].at = "finished"]
    /\ Enqueue(Event("done", workers[r].full, r))
    /\ UNCHANGED <<send_controls, ui_processed>>
    /\ UNCHANGED outsideUi

\* _worker: chat or the generator raises; one of the except clauses puts
\* ("error", message)
WorkerError(r) ==
    /\ r \in 1..Len(workers)
    /\ workers[r].at = "stream"
    /\ workers' = [workers EXCEPT ![r].at = "finished"]
    /\ Enqueue(Event("error", "failed", r))
    /\ UNCHANGED <<send_controls, ui_processed>>
    /\ UNCHANGED outsideUi

\* _pump_queue handles the oldest event
Pump ==
    /\ ui_queue # <<>>
    /\ ui_queue' = Tail(ui_queue)
    /\ send_controls' = ControlsAfter(Head(ui_queue).kind, send_controls)
    /\ ui_processed' = Append(ui_processed,
                              [event |-> Head(ui_queue), controls |-> send_controls'])
    /\ UNCHANGED <<workers, ui_put>>
    /\ UNCHANGED outsideUi

NextUi ==
    \/ SendClicked
    \/ SendByEnter
    \/ SendTooLarge
    \/ \E r \in 1..MaxSends : WorkerStart(r)
    \/ \E r \in 1..MaxSends : WorkerChunk(r)
    \/ \E r \in 1..MaxSends : WorkerDone(r)
    \/ \E r \in 1..MaxSends : WorkerError(r)
    \/ Pump

SpecUi == InitUi /\ [][NextUi]_vars

\* ------------------------------------------------------------------------
\* Claims about the chat window
\* ------------------------------------------------------------------------
\* The events one request put on the queue, in put order.
EventsOf(r) == SelectSeq(ui_put, LAMBDA e : e.req = r)

IsTerminal(e) == e.kind = "done" \/ e.kind = "error"

RECURSIVE Concatenation(_)
Concatenation(texts) ==
    IF texts = <<>> THEN "" ELSE texts[1] \o Concatenation(Tail(texts))

PayloadsOf(evs) == [i \in 1..Len(evs) |-> evs[i].payload]

\* start, chunks, and a terminal event only in the last place
WellOrdered(evs) ==
    \A i \in 1..Len(evs) :
        IF i = 1 THEN evs[i].kind = "start"
        ELSE evs[i].kind = "chunk" \/ (i = Len(evs) /\ IsTerminal(evs[i]))

====
